---- MODULE Spec2Model ----
(***************************************************************************)
(* The editor store of the page builder (src/src/store/editorStore.ts):    *)
(* a tree of layout nodes edited through copy-on-write helpers, and an     *)
(* undo/redo history of snapshots with a debounced recording mode.         *)
(*                                                                         *)
(* Strings are TLA+ strings.  null and undefined ids are the string Null.  *)
(* A JavaScript object or array is a record that carries its address in    *)
(* the field ref, so that === on objects is equality of refs.  A missing   *)
(* children array is the array whose ref is NullRef.                       *)
(***************************************************************************)
EXTENDS Integers, Sequences, FiniteSets, TLC

VARIABLES nodes, selectedNodeId, currentPageId, historyPast, historyFuture,
          pendingSnapshot, historyTimeout, timers, call

vars == <<nodes, selectedNodeId, currentPageId, historyPast, historyFuture,
          pendingSnapshot, historyTimeout, timers, call>>

storeVars == <<nodes, selectedNodeId, currentPageId, historyPast, historyFuture,
               pendingSnapshot, historyTimeout, timers>>

(***************************************************************************)
(* Program constants.                                                      *)
(***************************************************************************)
HISTORY_LIMIT == 50

Null == "null"

(***************************************************************************)
(* Bounds of the model.                                                    *)
(***************************************************************************)
\* general specification: snapshots recorded or pending before the host stops editing
MaxOps == 3
\* history scenario: number of sequential mutations the host performs
NMut == 60
\* history scenario: how many debounced calls a drag gesture may make
MaxBurst == 2

(***************************************************************************)
(* Object identity.  gen counts the operations an object is younger than   *)
(* the input tree; kind and path say which object of that tree it was      *)
(* made for, so no two live objects share a ref.                           *)
(***************************************************************************)
NullRef == [gen |-> 0, kind |-> "null", path |-> <<>>]

\* the ref held by values whose identity is not tracked (the store's state)
AnonRef == [gen |-> 0, kind |-> "anon", path |-> <<>>]

\* a new object made from (a copy of, or a replacement for) the object r
FreshRef(r) == [r EXCEPT !.gen = r.gen + 1]

\* a new array made for the node r that had no children array
FreshArrayFor(r) == [gen |-> r.gen + 1, kind |-> "array", path |-> r.path]

NoChildren == [ref |-> NullRef, items |-> <<>>]

NoProps == [k \in {} |-> ""]

\* src/src/models/Node.ts
MkNode(id, type, name, hasProps, props, children) ==
  [ref |-> AnonRef, id |-> id, type |-> type, name |-> name,
   hasProps |-> hasProps, props |-> props, children |-> children]

MkArray(items) == [ref |-> AnonRef, items |-> items]

\* node.props ?? {}
PropsOrEmpty(node) == IF node.hasProps THEN node.props ELSE NoProps

\* a key of both maps keeps the value of the first
SpreadKeepsExisting(a, b) ==
  [k \in (DOMAIN a) \cup (DOMAIN b) |-> IF k \in DOMAIN a THEN a[k] ELSE b[k]]

\* { ...a, ...b } on string maps
Spread(a, b) ==
  [k \in (DOMAIN a) \cup (DOMAIN b) |-> IF k \in DOMAIN b THEN b[k] ELSE a[k]]

(***************************************************************************)
(* Alloc gives every object of a tree its own address (what the heap does  *)
(* for a tree the host built); Content forgets the addresses.              *)
(***************************************************************************)
RECURSIVE AllocArray(_, _)
AllocArray(arr, path) ==
  IF arr.ref = NullRef THEN arr
  ELSE [ref |-> [gen |-> 0, kind |-> "array", path |-> path],
        items |-> [i \in 1..Len(arr.items) |->
                    [arr.items[i] EXCEPT
                       !.ref = [gen |-> 0, kind |-> "node", path |-> Append(path, i)],
                       !.children = AllocArray(arr.items[i].children, Append(path, i))]]]

Alloc(arr) == AllocArray(arr, <<>>)

RECURSIVE Content(_)
Content(arr) ==
  IF arr.ref = NullRef THEN arr
  ELSE [ref |-> AnonRef,
        items |-> [i \in 1..Len(arr.items) |->
                    [arr.items[i] EXCEPT !.ref = AnonRef,
                                         !.children = Content(arr.items[i].children)]]]

\* the arrays and nodes below a node the host passes in, at their paths
\* below it: objects of their own, none of them an object of the tree
RECURSIVE AllocArgArray(_, _)
AllocArgArray(arr, path) ==
  IF arr.ref = NullRef THEN arr
  ELSE [ref |-> [gen |-> 0, kind |-> "argarray", path |-> path],
        items |-> [i \in 1..Len(arr.items) |->
                    [arr.items[i] EXCEPT
                       !.ref = [gen |-> 0, kind |-> "arg", path |-> Append(path, i)],
                       !.children = AllocArgArray(arr.items[i].children,
                                                  Append(path, i))]]]

\* a node the host passes in (buildNodeFromTemplate): an object of its own
AllocArg(node) ==
  [node EXCEPT !.ref = [gen |-> 0, kind |-> "arg", path |-> <<>>],
               !.children = AllocArgArray(node.children, <<>>)]

(***************************************************************************)
(* The updaters passed to updateNodeTree, as data.                         *)
(***************************************************************************)
PropsUpdater(updates) == [kind |-> "props", updates |-> updates, name |-> ""]

NameUpdater(name) == [kind |-> "name", updates |-> NoProps, name |-> name]

\* (node) => ({ ...node, props: { ...(node.props ?? {}), ...updates } })
\* (node) => ({ ...node, name })
ApplyUpdater(updater, node) ==
  IF updater.kind = "props"
  THEN [node EXCEPT !.ref = FreshRef(node.ref),
                    !.hasProps = TRUE,
                    !.props = Spread(PropsOrEmpty(node), updater.updates)]
  ELSE [node EXCEPT !.ref = FreshRef(node.ref), !.name = updater.name]

RECURSIVE updateNodeTree(_, _, _)
updateNodeTree(arr, nodeId, updater) ==
  [ref |-> FreshRef(arr.ref),
   items |-> [i \in 1..Len(arr.items) |->
     LET node == arr.items[i] IN
     IF node.id = nodeId THEN ApplyUpdater(updater, node)
     ELSE IF node.children.ref = NullRef THEN node
     ELSE LET nextChildren == updateNodeTree(node.children, nodeId, updater) IN
          IF nextChildren.ref = node.children.ref THEN node
          ELSE [node EXCEPT !.ref = FreshRef(node.ref), !.children = nextChildren]]]

\* the node the spread { ...node, children: nextChildren } builds
WithChildren(node, nextChildren) ==
  [node EXCEPT !.ref = FreshRef(node.ref), !.children = nextChildren]

\* the new node is put first, before the existing children
PrependChild(node, nodeToAdd) ==
  [ref |-> IF node.children.ref = NullRef THEN FreshArrayFor(node.ref)
           ELSE FreshRef(node.children.ref),
   items |-> <<nodeToAdd>> \o node.children.items]

\* [...(node.children ?? []), nodeToAdd]
AppendChild(node, nodeToAdd) ==
  [ref |-> IF node.children.ref = NullRef THEN FreshArrayFor(node.ref)
           ELSE FreshRef(node.children.ref),
   items |-> Append(node.children.items, nodeToAdd)]

RECURSIVE addNodeToTree(_, _, _)
addNodeToTree(arr, containerId, nodeToAdd) ==
  LET nextChildren(node) == addNodeToTree(node.children, containerId, nodeToAdd)
      \* the iterations of the map callback that set didInsert
      inserts(node) ==
        \/ node.id = containerId
        \/ /\ node.children.ref # NullRef
           /\ nextChildren(node).ref # node.children.ref
      didInsert == \E i \in 1..Len(arr.items) : inserts(arr.items[i])
      nextNodes ==
        [ref |-> FreshRef(arr.ref),
         items |-> [i \in 1..Len(arr.items) |->
           LET node == arr.items[i] IN
           IF node.id = containerId THEN WithChildren(node, AppendChild(node, nodeToAdd))
           ELSE IF node.children.ref = NullRef THEN node
           ELSE IF nextChildren(node).ref = node.children.ref THEN node
           ELSE WithChildren(node, nextChildren(node))]]
  IN IF didInsert THEN nextNodes ELSE arr

\* Array.prototype.findIndex by id, 1-based; 0 stands for -1
FindIndex(items, id) ==
  IF \E i \in 1..Len(items) : items[i].id = id
  THEN CHOOSE i \in 1..Len(items) :
         /\ items[i].id = id
         /\ \A j \in 1..(i - 1) : items[j].id # id
  ELSE 0

\* splice(index, 1) and splice(index, 0, x), 1-based
RemoveAt(items, index) ==
  SubSeq(items, 1, index - 1) \o SubSeq(items, index + 1, Len(items))

InsertAt(items, index, x) ==
  SubSeq(items, 1, index - 1) \o <<x>> \o SubSeq(items, index, Len(items))

\* the source is inserted at the target's index as it was before the removal
reorderNodesNoShift(arr, sourceId, targetId) ==
  LET sourceIndex == FindIndex(arr.items, sourceId)
      targetIndex == FindIndex(arr.items, targetId)
  IN IF sourceIndex = 0 \/ targetIndex = 0 \/ sourceIndex = targetIndex
     THEN arr
     ELSE [ref |-> FreshRef(arr.ref),
           items |-> InsertAt(RemoveAt(arr.items, sourceIndex), targetIndex,
                              arr.items[sourceIndex])]

reorderNodes(arr, sourceId, targetId) ==
  LET sourceIndex == FindIndex(arr.items, sourceId)
      targetIndex == FindIndex(arr.items, targetId)
      insertIndex == IF sourceIndex < targetIndex THEN targetIndex - 1 ELSE targetIndex
  IN IF sourceIndex = 0 \/ targetIndex = 0 \/ sourceIndex = targetIndex
     THEN arr
     ELSE [ref |-> FreshRef(arr.ref),
           items |-> InsertAt(RemoveAt(arr.items, sourceIndex), insertIndex,
                              arr.items[sourceIndex])]

\* node.children ?? []
ChildrenOrEmpty(node) ==
  IF node.children.ref = NullRef
  THEN [ref |-> FreshArrayFor(node.ref), items |-> <<>>]
  ELSE node.children

RECURSIVE moveNodeInTree(_, _, _, _)
moveNodeInTree(arr, parentId, sourceId, targetId) ==
  LET reordered(node) == reorderNodes(ChildrenOrEmpty(node), sourceId, targetId)
      nextChildren(node) == moveNodeInTree(node.children, parentId, sourceId, targetId)
      \* the iterations of the map callback that set didUpdate
      updates(node) ==
        IF node.id = parentId
        THEN reordered(node).ref # node.children.ref
        ELSE /\ node.children.ref # NullRef
             /\ nextChildren(node).ref # node.children.ref
      didUpdate == \E i \in 1..Len(arr.items) : updates(arr.items[i])
      nextNodes ==
        [ref |-> FreshRef(arr.ref),
         items |-> [i \in 1..Len(arr.items) |->
           LET node == arr.items[i] IN
           IF node.id = parentId
           THEN IF reordered(node).ref = node.children.ref THEN node
                ELSE WithChildren(node, reordered(node))
           ELSE IF node.children.ref = NullRef THEN node
           ELSE IF nextChildren(node).ref = node.children.ref THEN node
           ELSE WithChildren(node, nextChildren(node))]]
  IN IF parentId = Null \/ parentId = ""
     THEN reorderNodes(arr, sourceId, targetId)
     ELSE IF didUpdate THEN nextNodes ELSE arr

(***************************************************************************)
(* The store.  A handler runs to completion; it is a function from the     *)
(* store's state (a record of the variables) to the state it leaves.       *)
(* The store keeps trees by content: each handler allocates the current    *)
(* tree, runs the helper on it and keeps the content of the result.        *)
(***************************************************************************)
State ==
  [nodes |-> nodes, selectedNodeId |-> selectedNodeId, currentPageId |-> currentPageId,
   historyPast |-> historyPast, historyFuture |-> historyFuture,
   pendingSnapshot |-> pendingSnapshot, historyTimeout |-> historyTimeout,
   timers |-> timers]

\* pendingSnapshot is <<>> for null and <<snapshot>> otherwise;
\* historyTimeout is 0 for null and a timer handle otherwise;
\* timers is the set of handles setTimeout has armed and that have neither
\* fired nor been cleared.
InitialState ==
  [nodes |-> MkArray(<<>>), selectedNodeId |-> Null, currentPageId |-> Null,
   historyPast |-> <<>>, historyFuture |-> <<>>,
   pendingSnapshot |-> <<>>, historyTimeout |-> 0, timers |-> {}]

snapshotState(s) ==
  [nodes |-> s.nodes, selectedNodeId |-> s.selectedNodeId,
   currentPageId |-> s.currentPageId]

\* slice(0, n): the newest snapshots are cut, not the oldest
SliceFirst(seq, n) ==
  IF Len(seq) <= n THEN seq ELSE SubSeq(seq, 1, n)

\* Array.prototype.slice(-n)
SliceLast(seq, n) ==
  IF Len(seq) <= n THEN seq ELSE SubSeq(seq, Len(seq) - n + 1, Len(seq))

\* clearTimeout(handle)
clearTimeout(armed, handle) == armed \ {handle}

\* the handle setTimeout returns: one that no armed timer has
NewTimer(armed) == CHOOSE h \in 1..(Cardinality(armed) + 1) : h \notin armed

\* historyPast is not cut to the limit
commitPendingSnapshotUnbounded(s) ==
  IF s.pendingSnapshot = <<>> THEN s
  ELSE [s EXCEPT
          !.pendingSnapshot = <<>>,
          !.timers = IF s.historyTimeout # 0
                     THEN clearTimeout(s.timers, s.historyTimeout) ELSE s.timers,
          !.historyTimeout = 0,
          !.historyPast = Append(s.historyPast, s.pendingSnapshot[1])]

commitPendingSnapshot(s) ==
  IF s.pendingSnapshot = <<>> THEN s
  ELSE [s EXCEPT
          !.pendingSnapshot = <<>>,
          !.timers = IF s.historyTimeout # 0
                     THEN clearTimeout(s.timers, s.historyTimeout) ELSE s.timers,
          !.historyTimeout = 0,
          !.historyPast = SliceLast(Append(s.historyPast, s.pendingSnapshot[1]),
                                    HISTORY_LIMIT)]

\* the snapshot is captured on every call, not only on the first of a burst
queueSnapshotRecapture(s) ==
  LET cleared == IF s.historyTimeout # 0
                 THEN clearTimeout(s.timers, s.historyTimeout) ELSE s.timers
      handle == NewTimer(cleared)
  IN [s EXCEPT
        !.pendingSnapshot = <<snapshotState(s)>>,
        !.timers = cleared \cup {handle},
        !.historyTimeout = handle]

\* the previous timer is not cleared before a new one is armed
queueSnapshotStacking(s) ==
  LET handle == NewTimer(s.timers)
  IN [s EXCEPT
        !.pendingSnapshot = IF s.pendingSnapshot = <<>>
                            THEN <<snapshotState(s)>> ELSE s.pendingSnapshot,
        !.timers = s.timers \cup {handle},
        !.historyTimeout = handle]

queueSnapshot(s) ==
  LET cleared == IF s.historyTimeout # 0
                 THEN clearTimeout(s.timers, s.historyTimeout) ELSE s.timers
      handle == NewTimer(cleared)
  IN [s EXCEPT
        !.pendingSnapshot = IF s.pendingSnapshot = <<>>
                            THEN <<snapshotState(s)>> ELSE s.pendingSnapshot,
        !.timers = cleared \cup {handle},
        !.historyTimeout = handle]

\* the callback queueSnapshot hands to setTimeout
timeoutCallback(s) ==
  LET t == [s EXCEPT !.pendingSnapshot = <<>>, !.historyTimeout = 0]
  IN IF s.pendingSnapshot = <<>> THEN t
     ELSE [t EXCEPT !.historyPast =
             SliceLast(Append(s.historyPast, s.pendingSnapshot[1]), HISTORY_LIMIT)]

\* the pending snapshot is not committed first
pushSnapshotWithoutCommit(s) ==
  [s EXCEPT !.historyPast = SliceLast(Append(s.historyPast, snapshotState(s)),
                                      HISTORY_LIMIT),
            !.historyFuture = <<>>]

\* historyPast is not cut to the limit
pushSnapshotUnbounded(s) ==
  LET c == commitPendingSnapshot(s)
  IN [c EXCEPT !.historyPast = Append(c.historyPast, snapshotState(c)),
               !.historyFuture = <<>>]

pushSnapshot(s) ==
  LET c == commitPendingSnapshot(s)
  IN [c EXCEPT !.historyPast = SliceLast(Append(c.historyPast, snapshotState(c)),
                                         HISTORY_LIMIT),
               !.historyFuture = <<>>]

setSelectedNodeId(s, nodeId) ==
  IF s.selectedNodeId = nodeId THEN s
  ELSE [pushSnapshot(s) EXCEPT !.selectedNodeId = nodeId]

setCurrentPageId(s, pageId) ==
  IF s.currentPageId = pageId THEN s
  ELSE [pushSnapshot(s) EXCEPT !.currentPageId = pageId, !.selectedNodeId = Null]

\* the snapshot is pushed after the new tree is in place
setNodesThenPush(s, newNodes) ==
  pushSnapshot([s EXCEPT !.nodes = newNodes])

setNodes(s, newNodes) ==
  [pushSnapshot(s) EXCEPT !.nodes = newNodes]

\* a debounced update leaves historyFuture as it is
updateNodePropsKeepsFuture(s, nodeId, updates, historyMode) ==
  LET recorded ==
        IF historyMode = "immediate" THEN pushSnapshot(s)
        ELSE IF historyMode = "debounced" THEN queueSnapshot(s)
             ELSE s
  IN [recorded EXCEPT !.nodes =
        Content(updateNodeTree(Alloc(recorded.nodes), nodeId, PropsUpdater(updates)))]

\* options?.history ?? 'immediate'
updateNodeProps(s, nodeId, updates, historyMode) ==
  LET recorded ==
        IF historyMode = "immediate" THEN pushSnapshot(s)
        ELSE IF historyMode = "debounced"
             THEN [queueSnapshot(s) EXCEPT !.historyFuture = <<>>]
             ELSE s
  IN [recorded EXCEPT !.nodes =
        Content(updateNodeTree(Alloc(recorded.nodes), nodeId, PropsUpdater(updates)))]

updateNodeName(s, nodeId, name) ==
  LET pushed == pushSnapshot(s)
  IN [pushed EXCEPT !.nodes =
        Content(updateNodeTree(Alloc(pushed.nodes), nodeId, NameUpdater(name)))]

addNode(s, node) ==
  LET pushed == pushSnapshot(s)
  IN [pushed EXCEPT !.nodes = MkArray(Append(pushed.nodes.items, node)),
                    !.selectedNodeId = node.id]

addNodeToContainer(s, containerId, node) ==
  LET pushed == pushSnapshot(s)
  IN [pushed EXCEPT
        !.nodes = Content(addNodeToTree(Alloc(pushed.nodes), containerId, AllocArg(node))),
        !.selectedNodeId = node.id]

moveNodeWithinParent(s, parentId, sourceId, targetId) ==
  LET pushed == pushSnapshot(s)
  IN [pushed EXCEPT !.nodes =
        Content(moveNodeInTree(Alloc(pushed.nodes), parentId, sourceId, targetId))]

\* the pending snapshot is not committed first
undoWithoutFlush(s) ==
  LET previous == s.historyPast[Len(s.historyPast)]
  IN IF Len(s.historyPast) = 0 THEN s
     ELSE [s EXCEPT !.nodes = previous.nodes,
                    !.selectedNodeId = previous.selectedNodeId,
                    !.currentPageId = previous.currentPageId,
                    !.historyPast = SubSeq(s.historyPast, 1, Len(s.historyPast) - 1),
                    !.historyFuture = <<snapshotState(s)>> \o s.historyFuture]

undo(s) ==
  LET c == commitPendingSnapshot(s)
      previous == c.historyPast[Len(c.historyPast)]
  IN IF Len(c.historyPast) = 0 THEN c
     ELSE [c EXCEPT !.nodes = previous.nodes,
                    !.selectedNodeId = previous.selectedNodeId,
                    !.currentPageId = previous.currentPageId,
                    !.historyPast = SubSeq(c.historyPast, 1, Len(c.historyPast) - 1),
                    !.historyFuture = <<snapshotState(c)>> \o c.historyFuture]

\* the restored snapshot stays on historyFuture
redoKeepsFuture(s) ==
  LET c == commitPendingSnapshot(s)
      next == c.historyFuture[1]
  IN IF Len(c.historyFuture) = 0 THEN c
     ELSE [c EXCEPT !.nodes = next.nodes,
                    !.selectedNodeId = next.selectedNodeId,
                    !.currentPageId = next.currentPageId,
                    !.historyPast = SliceLast(Append(c.historyPast, snapshotState(c)),
                                              HISTORY_LIMIT)]

\* the selection of the restored snapshot is not restored
redoKeepsSelection(s) ==
  LET c == commitPendingSnapshot(s)
      next == c.historyFuture[1]
  IN IF Len(c.historyFuture) = 0 THEN c
     ELSE [c EXCEPT !.nodes = next.nodes,
                    !.currentPageId = next.currentPageId,
                    !.historyPast = SliceLast(Append(c.historyPast, snapshotState(c)),
                                              HISTORY_LIMIT),
                    !.historyFuture = Tail(c.historyFuture)]

redo(s) ==
  LET c == commitPendingSnapshot(s)
      next == c.historyFuture[1]
  IN IF Len(c.historyFuture) = 0 THEN c
     ELSE [c EXCEPT !.nodes = next.nodes,
                    !.selectedNodeId = next.selectedNodeId,
                    !.currentPageId = next.currentPageId,
                    !.historyPast = SliceLast(Append(c.historyPast, snapshotState(c)),
                                              HISTORY_LIMIT),
                    !.historyFuture = Tail(c.historyFuture)]

\* the timer is disarmed and its callback never runs
fireTimerWithoutCallback(s, h) ==
  [s EXCEPT !.timers = s.timers \ {h}]

\* the timer with handle h expires: it is disarmed and its callback runs
fireTimer(s, h) ==
  timeoutCallback([s EXCEPT !.timers = s.timers \ {h}])

\* the variables take the values of the state record t
Becomes(t) ==
  /\ nodes' = t.nodes
  /\ selectedNodeId' = t.selectedNodeId
  /\ currentPageId' = t.currentPageId
  /\ historyPast' = t.historyPast
  /\ historyFuture' = t.historyFuture
  /\ pendingSnapshot' = t.pendingSnapshot
  /\ historyTimeout' = t.historyTimeout
  /\ timers' = t.timers

(***************************************************************************)
(* Actions: one per store operation, and the expiry of an armed timer.     *)
(* call is the record of a helper call on an allocated tree; the store's   *)
(* operations leave it alone.                                              *)
(***************************************************************************)
SetSelectedNodeId(nodeId) ==
  /\ Becomes(setSelectedNodeId(State, nodeId))
  /\ UNCHANGED call

SetCurrentPageId(pageId) ==
  /\ Becomes(setCurrentPageId(State, pageId))
  /\ UNCHANGED call

SetNodes(newNodes) ==
  /\ Becomes(setNodes(State, newNodes))
  /\ UNCHANGED call

UpdateNodeProps(nodeId, updates, historyMode) ==
  /\ Becomes(updateNodeProps(State, nodeId, updates, historyMode))
  /\ UNCHANGED call

UpdateNodeName(nodeId, name) ==
  /\ Becomes(updateNodeName(State, nodeId, name))
  /\ UNCHANGED call

AddNode(node) ==
  /\ Becomes(addNode(State, node))
  /\ UNCHANGED call

AddNodeToContainer(containerId, node) ==
  /\ Becomes(addNodeToContainer(State, containerId, node))
  /\ UNCHANGED call

MoveNodeWithinParent(parentId, sourceId, targetId) ==
  /\ Becomes(moveNodeWithinParent(State, parentId, sourceId, targetId))
  /\ UNCHANGED call

Undo ==
  /\ Becomes(undo(State))
  /\ UNCHANGED call

Redo ==
  /\ Becomes(redo(State))
  /\ UNCHANGED call

\* time is not measured: an armed timer may expire at any moment, so a call
\* arrives before the expiry or after it
TimerFires(h) ==
  /\ h \in timers
  /\ Becomes(fireTimer(State, h))
  /\ UNCHANGED call

NoCall == [fn |-> "none", before |-> MkArray(<<>>), after |-> MkArray(<<>>),
           nodeId |-> "", updater |-> NameUpdater("")]

\* the store as create() leaves it
Init ==
  /\ nodes = InitialState.nodes
  /\ selectedNodeId = InitialState.selectedNodeId
  /\ currentPageId = InitialState.currentPageId
  /\ historyPast = InitialState.historyPast
  /\ historyFuture = InitialState.historyFuture
  /\ pendingSnapshot = InitialState.pendingSnapshot
  /\ historyTimeout = InitialState.historyTimeout
  /\ timers = InitialState.timers
  /\ call = NoCall

(***************************************************************************)
(* The general specification: the host drives the store with any           *)
(* operation on small inputs, and stops recording once MaxOps snapshots    *)
(* are recorded or pending.                                                *)
(***************************************************************************)
MissingId == "zz"

Text(id) == MkNode(id, "text", "Text", TRUE, [x |-> "0px"], NoChildren)

Box(id, kids) == MkNode(id, "container", "Box", FALSE, NoProps, MkArray(kids))

PageTrees ==
  { MkArray(<<Box("a", <<Text("b")>>), Text("c")>>),
    MkArray(<<Text("b"), Box("a", <<>>)>>),
    MkArray(<<Box("d", <<Text("b"), Box("a", <<>>)>>)>>) }

SelectIds == {"b", Null}

PageIds == {"p1", Null}

UpdateIds == {"b", MissingId}

UpdateSets == {NoProps, [x |-> "8px"]}

HistoryModes == {"immediate", "debounced", "none"}

NewNodes == {Text("c")}

ContainerIds == {"a", "b", MissingId}

ParentIds == {Null, "a"}

MoveIds == {"a", "b"}

Recorded == Len(historyPast) + Len(historyFuture) + Len(pendingSnapshot)

CanRecord == Recorded < MaxOps

Next ==
  \/ CanRecord /\ \E id \in SelectIds : SetSelectedNodeId(id)
  \/ CanRecord /\ \E id \in PageIds : SetCurrentPageId(id)
  \/ CanRecord /\ \E t \in PageTrees : SetNodes(t)
  \/ CanRecord /\ \E id \in UpdateIds, u \in UpdateSets, m \in HistoryModes :
                     UpdateNodeProps(id, u, m)
  \/ CanRecord /\ \E id \in UpdateIds : UpdateNodeName(id, "Title")
  \/ CanRecord /\ \E n \in NewNodes : AddNode(n)
  \/ CanRecord /\ \E c \in ContainerIds, n \in NewNodes : AddNodeToContainer(c, n)
  \/ CanRecord /\ \E p \in ParentIds, src \in MoveIds, tgt \in MoveIds :
                     MoveNodeWithinParent(p, src, tgt)
  \/ Undo
  \/ Redo
  \/ \E h \in timers : TimerFires(h)

Spec == Init /\ [][Next]_vars

(***************************************************************************)
(* The history scenario: the host loads a page with one node and then      *)
(* edits one property of it, each edit writing the successor of the value  *)
(* it reads, so the state after the k-th mutation is recognisable by its   *)
(* value k.  The host undoes and redoes at will, drags (debounced edits)    *)
(* during the last MaxBurst edits, when the history is full, and may end   *)
(* the run with one operation of any other kind.                           *)
(***************************************************************************)
Digits == <<"0", "1", "2", "3", "4", "5", "6", "7", "8", "9">>

\* String(n), n < 100
Str(n) == IF n < 10 THEN Digits[n + 1]
          ELSE Digits[(n \div 10) + 1] \o Digits[(n % 10) + 1]

\* toPx: Math.round(value) + 'px', for an integer below 100
toPx(value) == Str(value) \o "px"

CounterTree(k) ==
  MkArray(<<MkNode("n", "text", "Counter", TRUE, [x |-> Str(k)], NoChildren)>>)

\* the number of the mutation that produced the tree t; 0 for the empty tree.
\* It is parseLength(props.x), which reads the number before a unit
CounterOf(t) ==
  IF t.items = <<>> THEN 0
  ELSE CHOOSE k \in 1..(NMut + 1) : t.items[1].props.x \in {Str(k), toPx(k)}

Counter == CounterOf(nodes)

HLoad == Counter = 0 /\ SetNodes(CounterTree(1))

HEdit ==
  /\ Counter \in 1..(NMut - 1)
  /\ UpdateNodeProps("n", [x |-> Str(Counter + 1)], "immediate")

\* the move listener of the draggable on move({dx: 1, dy: 0}); the node has
\* never been moved down, so positionRef.current.y is 0
HDrag ==
  /\ Counter \in 1..(NMut - 1)
  /\ Counter >= NMut - MaxBurst
  /\ UpdateNodeProps("n", [x |-> toPx(Counter + 1), y |-> toPx(0)], "debounced")

\* the edits are made and the last step recorded was one of them
AtEnd ==
  /\ Counter = NMut
  /\ historyPast # <<>>
  /\ CounterOf(historyPast[Len(historyPast)].nodes) < NMut

HistNext ==
  \/ HLoad
  \/ HEdit
  \/ HDrag
  \/ AtEnd /\ SetSelectedNodeId("n")
  \/ AtEnd /\ SetCurrentPageId("p1")
  \/ AtEnd /\ UpdateNodeName("n", "Title")
  \/ AtEnd /\ AddNode(Text("c"))
  \/ AtEnd /\ AddNodeToContainer("n", Text("c"))
  \/ AtEnd /\ MoveNodeWithinParent(Null, "n", "n")
  \/ Undo
  \/ Redo
  \/ \E h \in timers : TimerFires(h)

SpecHist == Init /\ [][HistNext]_vars

(***************************************************************************)
(* The bound scenario: NMut sequential immediate mutations from the empty  *)
(* history, and only then undos.                                           *)
(***************************************************************************)
BLoad == historyFuture = <<>> /\ HLoad

BEdit == historyFuture = <<>> /\ HEdit

BUndo == (Counter = NMut \/ historyFuture # <<>>) /\ Undo

BoundNext == BLoad \/ BEdit \/ BUndo

SpecBound == Init /\ [][BoundNext]_vars

(***************************************************************************)
(* The helper specification: a tree the host built is allocated, and one   *)
(* helper is called on it; call records the tree before and after.         *)
(***************************************************************************)
TreeLeaves == {Text("b"), Text("c")}

TreeBoxes ==
  { Box("a", <<>>), Box("a", <<Text("b")>>), Box("a", <<Text("b"), Text("c")>>),
    Box("d", <<Box("a", <<Text("b")>>)>>),
    MkNode("a", "section", "Bare", FALSE, NoProps, NoChildren) }

TreeNodes == TreeLeaves \cup TreeBoxes

\* the ids of all nodes of a tree, in document order
RECURSIVE IdList(_)
IdList(arr) ==
  LET RECURSIVE From(_)
      From(i) == IF i > Len(arr.items) THEN <<>>
                 ELSE <<arr.items[i].id>> \o IdList(arr.items[i].children) \o From(i + 1)
  IN From(1)

IdsOf(arr) == {IdList(arr)[i] : i \in 1..Len(IdList(arr))}

UniqueIds(arr) == Cardinality(IdsOf(arr)) = Len(IdList(arr))

SiblingIds == {"a", "b", "c", "d"}

\* lists of three and of four leaves with different ids
SiblingLists ==
  { <<Text(w), Text(x), Text(y)>> : w \in SiblingIds, x \in SiblingIds, y \in SiblingIds }
    \cup { <<Text(w), Text(x), Text(y), Text(z)>> :
             w \in SiblingIds, x \in SiblingIds, y \in SiblingIds, z \in SiblingIds }

TreeInputs ==
  { t \in {MkArray(<<>>)} \cup {MkArray(<<n>>) : n \in TreeNodes}
             \cup {MkArray(<<n, m>>) : n \in TreeNodes, m \in TreeNodes}
             \cup {MkArray(l) : l \in SiblingLists}
             \cup {MkArray(<<Box("p", l)>>) : l \in SiblingLists} :
      UniqueIds(t) }

TreeIds == {"a", "b", "c", MissingId}

\* patches: empty, overwriting, clearing with "", adding a key, and mixed
TreePatches ==
  UpdateSets \cup {[x |-> ""], [y |-> ""], [x |-> "", y |-> "4px"]}

TreeParentIds == {Null, "a", "b", "p", MissingId}

TreeMoveIds == SiblingIds \cup {MissingId}

TreeInit ==
  /\ nodes = InitialState.nodes
  /\ selectedNodeId = InitialState.selectedNodeId
  /\ currentPageId = InitialState.currentPageId
  /\ historyPast = InitialState.historyPast
  /\ historyFuture = InitialState.historyFuture
  /\ pendingSnapshot = InitialState.pendingSnapshot
  /\ historyTimeout = InitialState.historyTimeout
  /\ timers = InitialState.timers
  /\ call \in {[NoCall EXCEPT !.fn = "input", !.before = Alloc(t), !.after = Alloc(t)] :
                 t \in TreeInputs}

\* the tree computation of updateNodeProps and of updateNodeName
CallUpdateNodeTree(nodeId, updater) ==
  /\ call.fn = "input"
  /\ call' = [fn |-> "updateNodeTree", before |-> call.before,
              after |-> updateNodeTree(call.before, nodeId, updater),
              nodeId |-> nodeId, updater |-> updater]
  /\ UNCHANGED storeVars

\* the tree computation of moveNodeWithinParent
CallMoveNodeInTree(parentId, sourceId, targetId) ==
  /\ call.fn = "input"
  /\ call' = [fn |-> "moveNodeInTree", before |-> call.before,
              after |-> moveNodeInTree(call.before, parentId, sourceId, targetId),
              parentId |-> parentId, sourceId |-> sourceId, targetId |-> targetId]
  /\ UNCHANGED storeVars

TreeNext ==
  \/ \E id \in TreeIds, u \in TreePatches : CallUpdateNodeTree(id, PropsUpdater(u))
  \/ \E id \in TreeIds : CallUpdateNodeTree(id, NameUpdater("Title"))
  \/ \E p \in TreeParentIds, src \in TreeMoveIds, tgt \in TreeMoveIds :
       CallMoveNodeInTree(p, src, tgt)

SpecTree == TreeInit /\ [][TreeNext]_vars

(***************************************************************************)
(* Theme tokens (src/unnamed/part_007, ThemeProvider) and the style        *)
(* resolver of the node renderer (src/unnamed/part_006).  A string that    *)
(* the code normalizes or searches is a sequence of one-character strings; *)
(* token values and categories, which the code only copies, are TLA+       *)
(* strings.  The characters are ASCII, and the only white space is " ".    *)
(***************************************************************************)
Lower == <<"a", "b", "c", "d", "e", "f", "g", "h", "i", "j", "k", "l", "m",
           "n", "o", "p", "q", "r", "s", "t", "u", "v", "w", "x", "y", "z">>

Upper == <<"A", "B", "C", "D", "E", "F", "G", "H", "I", "J", "K", "L", "M",
           "N", "O", "P", "Q", "R", "S", "T", "U", "V", "W", "X", "Y", "Z">>

WhiteSpace == {" "}

\* String.prototype.trim
RECURSIVE TrimStart(_)
TrimStart(s) ==
  IF s # <<>> /\ Head(s) \in WhiteSpace THEN TrimStart(Tail(s)) ELSE s

RECURSIVE TrimEnd(_)
TrimEnd(s) ==
  IF s # <<>> /\ s[Len(s)] \in WhiteSpace THEN TrimEnd(SubSeq(s, 1, Len(s) - 1)) ELSE s

Trim(s) == TrimEnd(TrimStart(s))

\* String.prototype.toLowerCase
ToLowerCase(s) ==
  [i \in 1..Len(s) |->
     IF \E j \in 1..26 : Upper[j] = s[i]
     THEN Lower[CHOOSE j \in 1..26 : Upper[j] = s[i]]
     ELSE s[i]]

\* the characters the class [a-z0-9] matches
IsAlnum(c) == (\E j \in 1..26 : Lower[j] = c) \/ (\E j \in 1..10 : Digits[j] = c)

\* replace(/[^a-z0-9]+/g, '-'): every maximal run of other characters
\* becomes one hyphen
RECURSIVE ReplaceRunsFrom(_, _)
ReplaceRunsFrom(s, i) ==
  IF i > Len(s) THEN <<>>
  ELSE IF IsAlnum(s[i]) THEN <<s[i]>> \o ReplaceRunsFrom(s, i + 1)
  ELSE IF i > 1 /\ ~IsAlnum(s[i - 1]) THEN ReplaceRunsFrom(s, i + 1)
  ELSE <<"-">> \o ReplaceRunsFrom(s, i + 1)

ReplaceRuns(s) == ReplaceRunsFrom(s, 1)

\* String.prototype.startsWith and String.prototype.includes
StartsWith(s, prefix) ==
  Len(prefix) <= Len(s) /\ SubSeq(s, 1, Len(prefix)) = prefix

Includes(s, part) ==
  \E i \in 1..(Len(s) + 1) :
    i + Len(part) - 1 <= Len(s) /\ SubSeq(s, i, i + Len(part) - 1) = part

ThemePrefix == <<"-", "-", "t", "h", "e", "m", "e", "-">>

VarOpen == <<"v", "a", "r", "(">>

\* src/src/models/ThemeToken.ts
MkToken(name, value, category) ==
  [name |-> name, value |-> value, category |-> category]

toCssVariableName(tokenName) ==
  LET normalized == ReplaceRuns(ToLowerCase(Trim(tokenName)))
  IN ThemePrefix \o (IF normalized = <<>> THEN <<"t", "o", "k", "e", "n">> ELSE normalized)

\* tokens.reduce((vars, token) => { vars[name] = value; return vars }, {})
RECURSIVE buildCssVariables(_)
buildCssVariables(tokens) ==
  IF tokens = <<>> THEN <<>>
  ELSE LET cssVars == buildCssVariables(SubSeq(tokens, 1, Len(tokens) - 1))
           token == tokens[Len(tokens)]
           key == toCssVariableName(token.name)
       IN [k \in (DOMAIN cssVars) \cup {key} |->
             IF k = key THEN token.value ELSE cssVars[k]]

\* the options argument: undefined, or { preserveExistingValues }
NoOptions == <<>>

Preserve(flag) == <<[preserveExistingValues |-> flag]>>

\* new Map(tokens.map((token) => [token.name, token.value])).get(name):
\* the value of the last token of that name, <<>> for undefined
MapGet(tokens, name) ==
  LET hits == {i \in 1..Len(tokens) : tokens[i].name = name}
  IN IF hits = {} THEN <<>>
     ELSE <<tokens[CHOOSE i \in hits : \A j \in hits : j <= i].value>>

\* an empty existing value gives way to the preset's value
applyTokensOrValue(tokens, nextTokens, options) ==
  IF options = NoOptions \/ ~options[1].preserveExistingValues THEN nextTokens
  ELSE [i \in 1..Len(nextTokens) |->
          LET existing == MapGet(tokens, nextTokens[i].name)
          IN IF existing = <<>> \/ existing[1] = "" THEN nextTokens[i]
             ELSE [nextTokens[i] EXCEPT !.value = existing[1]]]

\* the list applyTokens hands to onTokensChange
applyTokens(tokens, nextTokens, options) ==
  IF options = NoOptions \/ ~options[1].preserveExistingValues THEN nextTokens
  ELSE [i \in 1..Len(nextTokens) |->
          LET existing == MapGet(tokens, nextTokens[i].name)
          IN [nextTokens[i] EXCEPT
                !.value = IF existing = <<>> THEN nextTokens[i].value ELSE existing[1]]]

\* tokens.map((token) => (token.name === name ? { ...token, value } : token))
updateTokenValue(tokens, name, value) ==
  [i \in 1..Len(tokens) |->
     IF tokens[i].name = name THEN [tokens[i] EXCEPT !.value = value] ELSE tokens[i]]

\* stylePropHandlers: the keys that have a handler
StyleKeys ==
  {"color", "background", "backgroundColor", "fontSize", "fontWeight", "textAlign",
   "padding", "margin", "borderRadius", "gap", "width", "height", "display",
   "justifyContent", "alignItems", "gridTemplateColumns"}

Gradient == <<"g", "r", "a", "d", "i", "e", "n", "t">>

ConstructorKey == <<"c", "o", "n", "s", "t", "r", "u", "c", "t", "o", "r">>

\* Object.prototype.constructor, the one inherited property of a plain
\* object whose name normalizeTokenName can produce; it is not a string
ObjectConstructor == <<"function Object">>

IsString(value) == value # ObjectConstructor

\* tokenMap[key] on a plain object: <<>> for undefined
Get(tokenMap, key) ==
  IF key \in DOMAIN tokenMap THEN <<tokenMap[key]>>
  ELSE IF key = ConstructorKey THEN <<ObjectConstructor>>
  ELSE <<>>

\* the properties stylePropHandlers, a plain object, inherits from
\* Object.prototype.  Called as handler(value, style), with no this, these
\* throw a TypeError; __proto__ is Object.prototype itself, not a function
InheritedThrowing ==
  {"valueOf", "hasOwnProperty", "propertyIsEnumerable", "toLocaleString",
   "__defineGetter__", "__defineSetter__", "__lookupGetter__", "__lookupSetter__",
   "__proto__"}

\* and these return a value and leave style alone
InheritedSilent == {"toString", "constructor"}

\* Object.prototype.isPrototypeOf(value) returns false for a value that is
\* not an object before it looks at this; for an object it converts this,
\* which is undefined, and throws a TypeError
IsPrototypeOfThrows(value) == ~IsString(value)

\* stylePropHandlers[key] is truthy
HasHandler(key) ==
  key \in StyleKeys \cup InheritedThrowing \cup InheritedSilent \cup {"isPrototypeOf"}

\* stylePropHandlers[key](value, style); a value that is not a string has
\* no includes method, so the backgroundColor handler throws a TypeError
stylePropHandlers(key, value, acc) ==
  IF acc.threw THEN acc
  ELSE IF key \in InheritedThrowing THEN [acc EXCEPT !.threw = TRUE]
  ELSE IF key \in InheritedSilent THEN acc
  ELSE IF key = "isPrototypeOf"
  THEN IF IsPrototypeOfThrows(value) THEN [acc EXCEPT !.threw = TRUE] ELSE acc
  ELSE IF key = "backgroundColor" /\ ~IsString(value) THEN [acc EXCEPT !.threw = TRUE]
  ELSE LET target == IF key = "backgroundColor" /\ Includes(value, Gradient)
                     THEN "background" ELSE key
       IN [acc EXCEPT !.style =
             [k \in (DOMAIN acc.style) \cup {target} |->
                IF k = target THEN value ELSE acc.style[k]]]

normalizeTokenName(value) == ReplaceRuns(ToLowerCase(Trim(value)))

RECURSIVE buildTokenVarMap(_)
buildTokenVarMap(tokens) ==
  IF tokens = <<>> THEN <<>>
  ELSE LET map == buildTokenVarMap(SubSeq(tokens, 1, Len(tokens) - 1))
           normalized == normalizeTokenName(tokens[Len(tokens)].name)
       IN IF normalized = <<>> THEN map
          ELSE [k \in (DOMAIN map) \cup {normalized} |->
                  IF k = normalized THEN VarOpen \o ThemePrefix \o normalized \o <<")">>
                  ELSE map[k]]

resolveTokenValue(value, tokenMap) ==
  LET trimmed == Trim(value)
      normalized == normalizeTokenName(trimmed)
  IN IF StartsWith(trimmed, VarOpen) THEN value
     ELSE IF Get(tokenMap, normalized) = <<>> THEN value
     ELSE Get(tokenMap, normalized)[1]

\* Number.parseInt(s, 10): <<>> for NaN, <<n>> for the integer n
DigitValue(c) == (CHOOSE j \in 1..10 : Digits[j] = c) - 1

IsDigit(c) == \E j \in 1..10 : Digits[j] = c

RECURSIVE DigitsValue(_, _, _)
DigitsValue(s, i, acc) ==
  IF i <= Len(s) /\ IsDigit(s[i]) THEN DigitsValue(s, i + 1, 10 * acc + DigitValue(s[i]))
  ELSE acc

ParseInt(s) ==
  LET t == TrimStart(s)
      signed == t # <<>> /\ Head(t) \in {"+", "-"}
      body == IF signed THEN Tail(t) ELSE t
  IN IF body = <<>> \/ ~IsDigit(Head(body)) THEN <<>>
     ELSE IF signed /\ Head(t) = "-" THEN <<0 - DigitsValue(body, 1, 0)>>
     ELSE <<DigitsValue(body, 1, 0)>>

\* String(n) for n > 0, as characters
RECURSIVE DecimalChars(_)
DecimalChars(n) ==
  IF n < 10 THEN <<Digits[n + 1]>>
  ELSE DecimalChars(n \div 10) \o <<Digits[(n % 10) + 1]>>

Grid == <<"g", "r", "i", "d">>

OneRem == <<"1", "r", "e", "m">>

\* `repeat(${columnCount}, minmax(0, 1fr))`
RepeatColumns(columnCount) ==
  <<"r", "e", "p", "e", "a", "t", "(">> \o DecimalChars(columnCount)
    \o <<",", " ", "m", "i", "n", "m", "a", "x", "(", "0", ",", " ", "1", "f", "r", ")", ")">>

\* style[key] ?? value
OrDefault(style, key, value) ==
  [k \in (DOMAIN style) \cup {key} |-> IF k \in DOMAIN style THEN style[k] ELSE value]

\* props.columns: <<>> for undefined
PropOf(props, key) ==
  IF \E i \in 1..Len(props) : props[i].key = key
  THEN <<props[CHOOSE i \in 1..Len(props) : props[i].key = key].value>>
  ELSE <<>>

\* Object.entries(props).forEach(...), in the order of the entries
RECURSIVE ForEachEntry(_, _, _)
ForEachEntry(props, i, tokenMap) ==
  IF i = 0 THEN [threw |-> FALSE, style |-> <<>>]
  ELSE LET acc == ForEachEntry(props, i - 1, tokenMap)
       IN IF HasHandler(props[i].key)
          THEN stylePropHandlers(props[i].key,
                                 resolveTokenValue(props[i].value, tokenMap), acc)
          ELSE acc

\* a node is its type and the entries of its props, in insertion order; the
\* result is the style object, or threw when a handler threw
resolveNodeStyles(node, tokenMap) ==
  LET acc == ForEachEntry(node.props, Len(node.props), tokenMap)
      columns == PropOf(node.props, "columns")
      columnCount == IF columns = <<>> THEN <<>> ELSE ParseInt(columns[1])
  IN IF acc.threw THEN acc
     ELSE IF /\ node.type = "container"
             /\ columns # <<>> /\ columns[1] # <<>>
             /\ columnCount # <<>> /\ columnCount[1] > 0
     THEN [acc EXCEPT !.style =
             OrDefault(OrDefault(OrDefault(acc.style, "display", Grid),
                                 "gridTemplateColumns", RepeatColumns(columnCount[1])),
                       "gap", OneRem)]
     ELSE acc

(***************************************************************************)
(* Calls of the theme functions.  The state after construction is a token  *)
(* registry the host passes to the provider; one function is called on it  *)
(* and call records the arguments and the result.                          *)
(***************************************************************************)
\* names that differ in case, in punctuation or not at all once normalized
ExistingNames ==
  {<<"A">>, <<"B">>, <<"a">>, <<"A", " ", "b">>, <<"a", "-", "b">>, <<>>}

ExistingTokens ==
  {MkToken(n, v, "color") : n \in ExistingNames, v \in {"red", "blue", ""}}

TokenLists ==
  {<<>>} \cup {<<t>> : t \in ExistingTokens}
         \cup {<<t, u>> : t \in ExistingTokens, u \in ExistingTokens}

PresetTokens ==
  {MkToken(n, v, "spacing") : n \in {<<"A">>, <<"C">>}, v \in {"green", "yellow"}}

PresetLists ==
  {<<>>} \cup {<<t>> : t \in PresetTokens}
         \cup {<<t, u>> : t \in PresetTokens, u \in PresetTokens}

OptionSets == {NoOptions, Preserve(FALSE), Preserve(TRUE)}

Entry(key, value) == [key |-> key, value |-> value]

PropEntries ==
  {Entry("color", v) :
     v \in {<<"r", "e", "d">>, <<"A", " ", "b">>, <<"v", "a", "r", "(", "-", "-", "x", ")">>,
            ConstructorKey, <<>>}}
    \cup {Entry("backgroundColor", v) :
            v \in {<<"a">>, Gradient \o <<"(", "r", "e", "d", ")">>, ConstructorKey}}
    \cup {Entry("valueOf", <<"x">>), Entry("toString", <<"x">>),
          Entry("__proto__", <<"x">>), Entry("isPrototypeOf", <<"x">>),
          Entry("isPrototypeOf", ConstructorKey)}
    \cup {Entry("background", <<"B">>), Entry("zIndex", <<"5">>),
          Entry("gap", <<"2", "4", "p", "x">>), Entry("display", <<"f", "l", "e", "x">>)}
    \cup {Entry("columns", v) :
            v \in {<<"3">>, <<"0">>, <<"x">>, <<"-", "2">>, <<" ", "1", "2", "p", "x">>}}

PropLists ==
  {<<>>} \cup {<<e>> : e \in PropEntries}
         \cup {l \in {<<e, f>> : e \in PropEntries, f \in PropEntries} :
                 l[1].key # l[2].key}

StyleNodes == {[type |-> t, props |-> l] : t \in {"text", "container"}, l \in PropLists}

ThemeInit ==
  /\ nodes = InitialState.nodes
  /\ selectedNodeId = InitialState.selectedNodeId
  /\ currentPageId = InitialState.currentPageId
  /\ historyPast = InitialState.historyPast
  /\ historyFuture = InitialState.historyFuture
  /\ pendingSnapshot = InitialState.pendingSnapshot
  /\ historyTimeout = InitialState.historyTimeout
  /\ timers = InitialState.timers
  /\ call \in {[fn |-> "input", tokens |-> l] : l \in TokenLists}

CallApplyTokens(nextTokens, options) ==
  /\ call.fn = "input"
  /\ call' = [fn |-> "applyTokens", tokens |-> call.tokens,
              nextTokens |-> nextTokens, options |-> options,
              result |-> applyTokens(call.tokens, nextTokens, options)]
  /\ UNCHANGED storeVars

UpdateNames == {<<"A">>, <<"a", "-", "b">>, <<"C">>}

UpdateValues == {"green", ""}

\* the result is what onTokensChange receives
CallUpdateTokenValue(name, value) ==
  /\ call.fn = "input"
  /\ call' = [fn |-> "updateTokenValue", tokens |-> call.tokens,
              name |-> name, value |-> value,
              result |-> updateTokenValue(call.tokens, name, value)]
  /\ UNCHANGED storeVars

\* useMemo(() => buildCssVariables(tokens), [tokens])
CallBuildCssVariables ==
  /\ call.fn = "input"
  /\ call' = [fn |-> "buildCssVariables", tokens |-> call.tokens,
              result |-> buildCssVariables(call.tokens)]
  /\ UNCHANGED storeVars

\* resolveNodeStyles(node, tokenMap) with tokenMap = buildTokenVarMap(tokens)
CallResolveNodeStyles(node) ==
  /\ call.fn = "input"
  /\ call' = [fn |-> "resolveNodeStyles", tokens |-> call.tokens, node |-> node,
              result |-> resolveNodeStyles(node, buildTokenVarMap(call.tokens))]
  /\ UNCHANGED storeVars

ThemeNext ==
  \/ \E l \in PresetLists, o \in OptionSets : CallApplyTokens(l, o)
  \/ \E n \in UpdateNames, v \in UpdateValues : CallUpdateTokenValue(n, v)
  \/ CallBuildCssVariables
  \/ \E n \in StyleNodes : CallResolveNodeStyles(n)

SpecTheme == ThemeInit /\ [][ThemeNext]_vars

(***************************************************************************)
(* The color control (src/src/components/editor/ColorControl.tsx).         *)
(* Strings are sequences of one-character strings.  A number is <<>> for   *)
(* NaN or <<q>>, where q is an integer or a decimal fraction [n, d] with d *)
(* a power of ten and no trailing zero, or 0 for an infinity.  The code's   *)
(* numbers are doubles: where a product is rounded to an integer the error *)
(* of the double arithmetic is worked out (DoubleError).                   *)
(***************************************************************************)
NaN == <<>>

HexDigits == Digits \o <<"a", "b", "c", "d", "e", "f">>

IsHexDigit(c) == \E j \in 1..16 : HexDigits[j] = ToLowerCase(<<c>>)[1]

HexValue(c) == (CHOOSE j \in 1..16 : HexDigits[j] = ToLowerCase(<<c>>)[1]) - 1

RECURSIVE HexDigitsValue(_, _, _)
HexDigitsValue(s, i, acc) ==
  IF i <= Len(s) /\ IsHexDigit(s[i]) THEN HexDigitsValue(s, i + 1, 16 * acc + HexValue(s[i]))
  ELSE acc

\* Number.parseInt(s, 16): white space, a sign and 0x are skipped
ParseIntHex(s) ==
  LET t == TrimStart(s)
      signed == t # <<>> /\ Head(t) \in {"+", "-"}
      u == IF signed THEN Tail(t) ELSE t
      body == IF Len(u) >= 2 /\ u[1] = "0" /\ u[2] \in {"x", "X"}
              THEN SubSeq(u, 3, Len(u)) ELSE u
  IN IF body = <<>> \/ ~IsHexDigit(Head(body)) THEN NaN
     ELSE IF signed /\ Head(t) = "-" THEN <<0 - HexDigitsValue(body, 1, 0)>>
     ELSE <<HexDigitsValue(body, 1, 0)>>

\* a decimal fraction without trailing zeros
RECURSIVE Frac(_, _)
Frac(n, d) == IF d > 1 /\ n % 10 = 0 THEN Frac(n \div 10, d \div 10) ELSE [n |-> n, d |-> d]

\* the length of the run of digits of s that starts at i
RECURSIVE DigitRun(_, _)
DigitRun(s, i) == IF i <= Len(s) /\ IsDigit(s[i]) THEN 1 + DigitRun(s, i + 1) ELSE 0

RECURSIVE Pow10(_)
Pow10(k) == IF k = 0 THEN 1 ELSE 10 * Pow10(k - 1)

InfinityChars == <<"I", "n", "f", "i", "n", "i", "t", "y">>

\* Infinity and -Infinity: fractions with the denominator 0
Infinite(sign) == [n |-> sign, d |-> 0]

\* Number.parseFloat: white space, sign, then Infinity, or digits, a fraction
\* if a point follows with digits before or after it, and an exponent if e
\* follows with digits after an optional sign
ParseFloat(s) ==
  LET t == TrimStart(s)
      signed == t # <<>> /\ Head(t) \in {"+", "-"}
      body == IF signed THEN Tail(t) ELSE t
      whole == DigitRun(body, 1)
      hasPoint == whole < Len(body) /\ body[whole + 1] = "."
      part == IF hasPoint THEN DigitRun(body, whole + 2) ELSE 0
      n == DigitsValue(body, 1, 0) * Pow10(part) + DigitsValue(body, whole + 2, 0)
      sign == IF signed /\ Head(t) = "-" THEN 0 - 1 ELSE 1
      \* the index of e, when an exponent follows the mantissa
      mantissa == IF part > 0 \/ (hasPoint /\ whole > 0) THEN whole + 1 + part ELSE whole
      e == mantissa + 1
      hasE == e <= Len(body) /\ body[e] \in {"e", "E"}
      expSigned == hasE /\ e < Len(body) /\ body[e + 1] \in {"+", "-"}
      expFrom == IF expSigned THEN e + 2 ELSE e + 1
      hasExp == hasE /\ DigitRun(body, expFrom) > 0
      exp == IF hasExp THEN DigitsValue(body, expFrom, 0) ELSE 0
      up == IF hasExp /\ ~(expSigned /\ body[e + 1] = "-") THEN Pow10(exp) ELSE 1
      down == IF hasExp /\ expSigned /\ body[e + 1] = "-" THEN Pow10(exp) ELSE 1
  IN IF StartsWith(body, InfinityChars) THEN <<Infinite(sign)>>
     ELSE IF whole + part = 0 THEN NaN
     ELSE IF part = 0 THEN <<Frac(sign * DigitsValue(body, 1, 0) * up, down)>>
     ELSE <<Frac(sign * n * up, Pow10(part) * down)>>

\* Math.min(Math.max(value, min), max) for integer bounds; Infinity is above
\* every bound and -Infinity below
clamp(value, min, max) ==
  IF value = NaN THEN NaN
  ELSE IF value[1].n < min * value[1].d THEN <<Frac(min, 1)>>
  ELSE IF value[1].n > max * value[1].d THEN <<Frac(max, 1)>>
  ELSE value

\* floor(log2(k)) for k >= 1
Log2(k) == CHOOSE e \in 0..30 : k \div (2 ^ e) = 1

\* n / d scaled by a power of two into [1, 2), the range of a significand
RECURSIVE Significand(_, _)
Significand(n, d) ==
  IF n < d THEN Significand(2 * n, d)
  ELSE IF n >= 2 * d THEN Significand(n, 2 * d)
  ELSE [n |-> n, d |-> d]

\* (v * 2^k) % m for 0 <= v < m, in steps that stay within 31 bits
RECURSIVE ShiftMod(_, _, _)
ShiftMod(v, k, m) ==
  IF k = 0 THEN v % m
  ELSE LET room == 29 - Log2(m)
           s == IF room < 1 THEN 1 ELSE IF room > k THEN k ELSE room
       IN ShiftMod(((2 ^ (s)) * v) % m, k - s, m)

\* The sign of the error of value * factor in double arithmetic, for the
\* fraction n / d > 0 and an integer factor > 0: the fraction is rounded to
\* a significand of 53 bits, ties to even, and so is its product with the
\* factor.  a is the first error and b the second, in units of the last bit
\* of the significand times x.d and of the product; the low bits of the
\* significand are all the second rounding needs
DoubleError(n, d, factor) ==
  LET x == Significand(n, d)
      L == Log2(factor)
      T == ShiftMod(x.n, 52, (2 ^ (L + 2)) * x.d)
      R == T % x.d
      up == 2 * R > x.d \/ (2 * R = x.d /\ (T \div x.d) % 2 = 1)
      a == IF up THEN x.d - R ELSE 0 - R
      low == ((T \div x.d) + (IF up THEN 1 ELSE 0)) % (2 ^ (L + 2))
      \* the product has 53 + L bits, or one more
      short == \/ factor * x.n < (2 ^ (L + 1)) * x.d
               \/ factor * x.n = (2 ^ (L + 1)) * x.d /\ a < 0
      W == IF short THEN (2 ^ (L)) ELSE (2 ^ (L + 1))
      dropped == (factor * low) % W
      up2 == 2 * dropped > W \/ (2 * dropped = W /\ (factor * low) % (2 * W) >= W)
      b == IF dropped = 0 THEN 0 ELSE IF up2 THEN W - dropped ELSE 0 - dropped
  IN factor * a + b * x.d

\* Math.round(value * factor): the integer nearest to the double product, a
\* half goes up.  The product is off the fraction's by less than any
\* fraction of these sizes is off a half, so it matters only where the
\* exact product is a half: 0.285 * 100 is 28.499999999999996
RoundTimes(value, factor) ==
  IF value = NaN THEN NaN
  ELSE IF value[1].d = 0 THEN <<value[1]>>
  ELSE LET n == value[1].n
           d == value[1].d
           exact == (2 * factor * n + d) \div (2 * d)
           half == (2 * factor * n) % d = 0 /\ ((2 * factor * n) \div d) % 2 = 1
           below == \/ n > 0 /\ DoubleError(n, d, factor) < 0
                    \/ n < 0 /\ DoubleError(0 - n, d, factor) > 0
       IN IF half /\ below THEN <<exact - 1>> ELSE <<exact>>

NaNChars == <<"N", "a", "N">>

\* value.toString(16).padStart(2, '0') for 0 <= value <= 255
toHex(value) ==
  IF value = NaN THEN NaNChars
  ELSE <<HexDigits[(value[1] \div 16) + 1], HexDigits[(value[1] % 16) + 1]>>

\* String.prototype.replace(c, ''): the first occurrence is removed
RemoveFirst(s, c) ==
  IF \E i \in 1..Len(s) : s[i] = c
  THEN LET i == CHOOSE i \in 1..Len(s) : s[i] = c /\ \A j \in 1..(i - 1) : s[j] # c
       IN SubSeq(s, 1, i - 1) \o SubSeq(s, i + 1, Len(s))
  ELSE s

MkColor(hex, alpha) == [hex |-> hex, alpha |-> alpha]

\* a parse result is <<>> for null or <<color>>
parseHexColor(value) ==
  LET normalized == Trim(RemoveFirst(value, "#"))
      alpha == ParseIntHex(SubSeq(normalized, 7, 8))
  IN IF Len(normalized) = 6 THEN <<MkColor(<<"#">> \o normalized, <<100>>)>>
     ELSE IF Len(normalized) = 8
     THEN <<MkColor(<<"#">> \o SubSeq(normalized, 1, 6),
                    \* Math.round((alpha / 255) * 100): 20 * alpha / 51 is
                    \* never a half, the double arithmetic changes nothing
                    IF alpha = NaN THEN NaN
                    ELSE <<(200 * alpha[1] + 255) \div 510>>)>>
     ELSE <<>>

\* the index of the first c in s at or after i, 0 if there is none
IndexFrom(s, c, i) ==
  IF \E k \in i..Len(s) : s[k] = c
  THEN CHOOSE k \in i..Len(s) : s[k] = c /\ \A j \in i..(k - 1) : s[j] # c
  ELSE 0

\* s has the characters of part, in any case, from index i on
MatchesAt(s, part, i) ==
  i + Len(part) - 1 <= Len(s) /\ ToLowerCase(SubSeq(s, i, i + Len(part) - 1)) = part

\* the index of the ( of rgb( or rgba( that starts at i, 0 if none does
RgbOpenAt(s, i) ==
  IF MatchesAt(s, <<"r", "g", "b", "(">>, i) THEN i + 3
  ELSE IF MatchesAt(s, <<"r", "g", "b", "a", "(">>, i) THEN i + 4
  ELSE 0

\* /rgba?\(([^)]+)\)/i matches at i: a ) follows the (, not directly
RgbMatchesAt(s, i) ==
  /\ RgbOpenAt(s, i) # 0
  /\ IndexFrom(s, ")", RgbOpenAt(s, i) + 1) > RgbOpenAt(s, i) + 1

\* value.match(/rgba?\(([^)]+)\)/i): <<>> for null, <<match[1]>> otherwise
RgbMatch(s) ==
  IF \E i \in 1..Len(s) : RgbMatchesAt(s, i)
  THEN LET i == CHOOSE i \in 1..Len(s) :
                  RgbMatchesAt(s, i) /\ \A j \in 1..(i - 1) : ~RgbMatchesAt(s, j)
       IN <<SubSeq(s, RgbOpenAt(s, i) + 1, IndexFrom(s, ")", RgbOpenAt(s, i) + 1) - 1)>>
  ELSE <<>>

\* String.prototype.split(',')
RECURSIVE Split(_)
Split(s) ==
  IF IndexFrom(s, ",", 1) = 0 THEN <<s>>
  ELSE <<SubSeq(s, 1, IndexFrom(s, ",", 1) - 1)>>
         \o Split(SubSeq(s, IndexFrom(s, ",", 1) + 1, Len(s)))

\* .map((part) => part.trim()).filter(Boolean)
TrimmedParts(parts) ==
  SelectSeq([i \in 1..Len(parts) |-> Trim(parts[i])], LAMBDA part : part # <<>>)

parseRgbColor(value) ==
  LET match == RgbMatch(value)
      parts == TrimmedParts(Split(match[1]))
      r == clamp(ParseFloat(parts[1]), 0, 255)
      g == clamp(ParseFloat(parts[2]), 0, 255)
      b == clamp(ParseFloat(parts[3]), 0, 255)
      a == IF Len(parts) >= 4 THEN clamp(ParseFloat(parts[4]), 0, 1) ELSE <<Frac(1, 1)>>
  IN IF match = <<>> THEN <<>>
     ELSE IF Len(parts) < 3 THEN <<>>
     ELSE <<MkColor(<<"#">> \o toHex(RoundTimes(r, 1)) \o toHex(RoundTimes(g, 1))
                            \o toHex(RoundTimes(b, 1)),
                    RoundTimes(a, 100))>>

parseCssColor(value) ==
  IF value = <<>> THEN <<>>
  ELSE IF StartsWith(value, <<"#">>) THEN parseHexColor(value)
  ELSE IF StartsWith(ToLowerCase(value), <<"r", "g", "b">>) THEN parseRgbColor(value)
  ELSE <<>>

\* the parentheses opened minus those closed in the first i characters
Balance(value, i) ==
  Cardinality({k \in 1..i : value[k] = "("}) - Cardinality({k \in 1..i : value[k] = ")"})

\* depth after the loop of splitGradientArgs has read i characters: +1 at
\* (, Math.max(depth - 1, 0) at ), which is the balance less its lowest
\* earlier value below zero
DepthAfter(value, i) ==
  LET lows == {0} \cup {Balance(value, j) : j \in 1..i}
  IN Balance(value, i) - (CHOOSE low \in lows : \A other \in lows : low <= other)

\* the commas at which the loop pushes the buffer
Cuts(value) == {i \in 1..Len(value) : value[i] = "," /\ DepthAfter(value, i) = 0}

\* the buffer is what was read since the last such comma
splitGradientArgs(value) ==
  LET cuts == Cuts(value)
      cut(k) == CHOOSE c \in cuts : Cardinality({d \in cuts : d < c}) = k - 1
      from(k) == IF k = 1 THEN 1 ELSE cut(k - 1) + 1
      args == [k \in 1..Cardinality(cuts) |-> Trim(SubSeq(value, from(k), cut(k) - 1))]
      buffer == SubSeq(value, from(Cardinality(cuts) + 1), Len(value))
  IN IF Trim(buffer) # <<>> THEN Append(args, Trim(buffer)) ELSE args

Deg == <<"d", "e", "g">>

\* the end of /(-?\d+(?:\.\d+)?)deg/i matched at i, before deg; 0 if no match
AngleEndAt(s, i) ==
  LET first == IF i <= Len(s) /\ s[i] = "-" THEN i + 1 ELSE i
      whole == DigitRun(s, first)
      point == first + whole
      part == IF point <= Len(s) /\ s[point] = "." THEN DigitRun(s, point + 1) ELSE 0
  IN IF whole = 0 THEN 0
     ELSE IF part > 0 THEN (IF MatchesAt(s, Deg, point + 1 + part) THEN point + part ELSE 0)
     ELSE IF MatchesAt(s, Deg, point) THEN point - 1
     ELSE 0

\* args[0].match(...): <<>> for null, <<angleMatch[1]>> otherwise
AngleMatch(s) ==
  IF \E i \in 1..Len(s) : AngleEndAt(s, i) # 0
  THEN LET i == CHOOSE i \in 1..Len(s) :
                  AngleEndAt(s, i) # 0 /\ \A j \in 1..(i - 1) : AngleEndAt(s, j) = 0
       IN <<SubSeq(s, i, AngleEndAt(s, i))>>
  ELSE <<>>

LinearGradientOpen ==
  <<"l", "i", "n", "e", "a", "r", "-", "g", "r", "a", "d", "i", "e", "n", "t", "(">>

White == <<"#", "f", "f", "f", "f", "f", "f">>

Black == <<"#", "0", "0", "0", "0", "0", "0">>

\* args[index] ?? fallback, index from 1
ArgOr(args, index, fallback) == IF index <= Len(args) THEN args[index] ELSE fallback

\* <<>> for null, otherwise <<[angle, startColor, endColor]>>
parseGradient(value) ==
  LET trimmed == Trim(value)
      inside == SubSeq(trimmed, IndexFrom(trimmed, "(", 1) + 1, Len(trimmed) - 1)
      args == splitGradientArgs(inside)
      angleMatch == AngleMatch(args[1])
      startIndex == IF angleMatch = <<>> THEN 1 ELSE 2
  IN IF ~MatchesAt(trimmed, LinearGradientOpen, 1) \/ trimmed[Len(trimmed)] # ")" THEN <<>>
     ELSE IF Len(args) < 2 THEN <<>>
     ELSE <<[angle |-> IF angleMatch = <<>> THEN <<Frac(90, 1)>>
                       ELSE ParseFloat(angleMatch[1]),
             startColor |-> ArgOr(args, startIndex, White),
             endColor |-> ArgOr(args, startIndex + 1, Black)]>>

(***************************************************************************)
(* Calls of the color parsers.  The state after construction is a value    *)
(* of the control; call records the value and the result of one parser.    *)
(***************************************************************************)
HexPairs == {<<"0", "0">>, <<"8", "0">>, <<"f", "f">>, <<"A", "b">>}

AlphaPairs == {<<"0", "0">>, <<"8", "0">>, <<"f", "f">>, <<"7", "F">>, <<"0", "1">>}

HexValues ==
  {<<"#", a, b, c>> : a \in {"a", "0", "F"}, b \in {"b", "0", "F"}, c \in {"c", "0", "F"}}
    \cup {<<"#">> \o p \o q \o r : p \in HexPairs, q \in HexPairs, r \in HexPairs}
    \cup {<<"#">> \o p \o p \o q \o a : p \in HexPairs, q \in HexPairs, a \in AlphaPairs}
    \cup {<<"#", "f", "f", "f", "f", "f", "f", "z", "z">>, <<"#", "a", "b", "c", "d">>,
          <<"#">>, <<"a", "b", "c">>, <<>>}

Channels ==
  {<<"0">>, <<"2", "5", "5">>, <<"3", "0", "0">>, <<"1", "2", "7", ".", "5">>,
   InfinityChars, <<"-">> \o InfinityChars, <<"1", "e", "2">>}

Alphas ==
  {<<"0", ".", "5">>, <<"0">>, <<"1">>, <<"2">>, <<".", "2", "5">>, InfinityChars,
   <<"5", "e", "-", "1">>, <<"0", ".", "2", "8", "5">>, <<"0", ".", "0", "0", "5">>}

CommaSpace == <<",", " ">>

RgbValues ==
  {<<"r", "g", "b", "(">> \o r \o CommaSpace \o g \o CommaSpace \o b \o <<")">> :
     r \in Channels, g \in Channels, b \in Channels}
    \cup {<<"r", "g", "b", "a", "(">> \o r \o <<",">> \o r \o <<",">> \o b \o <<",">> \o a
            \o <<")">> : r \in Channels, b \in Channels, a \in Alphas}
    \cup {<<"R", "G", "B", "(", "1", ",", "2", ",", "3", ")">>,
          <<"r", "g", "b", "(", "1", ",", "2", ")">>,
          <<"r", "g", "b", "(", ")">>,
          <<"r", "e", "d">>}

Stops ==
  {<<"r", "g", "b", "a", "(", "0", ",", "0", ",", "0", ",", "0", ".", "5", ")">>,
   White,
   <<"r", "e", "d">>,
   <<"r", "g", "b", "(", "1", ",", " ", "2", ",", " ", "3", ")">>,
   <<"h", "s", "l", "(", "1", "2", "0", "d", "e", "g", ",", " ", "1", "0", "0", "%", ",",
     " ", "5", "0", "%", ")">>}

\* the first argument of a gradient, with its comma: none, angles, a side
Angles ==
  {<<>>,
   <<"4", "5", "d", "e", "g", ",", " ">>,
   <<"-", "3", "0", "D", "E", "G", ",">>,
   <<"1", "2", ".", "5", "d", "e", "g", ",", " ">>,
   <<"t", "o", " ", "r", "i", "g", "h", "t", ",", " ">>}

GradientValues ==
  {LinearGradientOpen \o a \o s \o CommaSpace \o t \o <<")">> :
     a \in Angles, s \in Stops, t \in Stops}
    \cup {LinearGradientOpen \o a \o s \o <<")">> : a \in Angles, s \in Stops}
    \cup {<<" ", "L", "i", "n", "e", "a", "r", "-", "G", "R", "A", "D", "I", "E", "N", "T", "(">>
            \o s \o <<",">> \o White \o <<")", " ">> : s \in Stops}
    \cup {LinearGradientOpen \o <<")">>, LinearGradientOpen \o White \o CommaSpace \o White}

ColorValues == HexValues \cup RgbValues \cup GradientValues

ColorInit ==
  /\ nodes = InitialState.nodes
  /\ selectedNodeId = InitialState.selectedNodeId
  /\ currentPageId = InitialState.currentPageId
  /\ historyPast = InitialState.historyPast
  /\ historyFuture = InitialState.historyFuture
  /\ pendingSnapshot = InitialState.pendingSnapshot
  /\ historyTimeout = InitialState.historyTimeout
  /\ timers = InitialState.timers
  /\ call \in {[fn |-> "input", value |-> v] : v \in ColorValues}

\* useMemo(() => parseCssColor(value), [value])
CallParseCssColor ==
  /\ call.fn = "input"
  /\ call' = [fn |-> "parseCssColor", value |-> call.value,
              result |-> parseCssColor(call.value)]
  /\ UNCHANGED storeVars

\* useMemo(() => parseGradient(value), [value])
CallParseGradient ==
  /\ call.fn = "input"
  /\ call' = [fn |-> "parseGradient", value |-> call.value,
              result |-> parseGradient(call.value)]
  /\ UNCHANGED storeVars

ColorNext == CallParseCssColor \/ CallParseGradient

SpecColor == ColorInit /\ [][ColorNext]_vars

(***************************************************************************)
(* Properties.                                                             *)
(***************************************************************************)
Min(a, b) == IF a <= b THEN a ELSE b

Last(seq) == seq[Len(seq)]

Front(seq) == SubSeq(seq, 1, Len(seq) - 1)

Current == snapshotState(State)

TimerStep == \E h \in timers : TimerFires(h)

\* an edit, or the expiry of the timer of a burst: a step that records
RecordingStep == HLoad \/ HEdit \/ (TimerStep /\ pendingSnapshot # <<>>)

\* a step that records k snapshots keeps the newest snapshots of historyPast,
\* in order, under the k new ones
PushKeepsNewest ==
  /\ RecordingStep => (historyPast' # historyPast /\ Len(historyPast') >= Len(historyPast))
  /\ (historyPast' # historyPast /\ Len(historyPast') >= Len(historyPast)) =>
      \E k \in 1..2 :
        LET kept == Len(historyPast') - k IN
        /\ Len(historyPast') = Min(HISTORY_LIMIT, Len(historyPast) + k)
        /\ SubSeq(historyPast', 1, kept) =
             SubSeq(historyPast, Len(historyPast) - kept + 1, Len(historyPast))

\* C1: historyPast never holds more than HISTORY_LIMIT snapshots, and a step
\* that records onto a full historyPast drops its oldest snapshots and keeps
\* the others in order.
C1_HistoryPastBounded ==
  /\ [](Len(historyPast) <= HISTORY_LIMIT)
  /\ [][PushKeepsNewest]_vars

\* historyPast is full and the snapshots of the first mutations have been dropped
C1_Witness ==
  /\ Len(historyPast) = HISTORY_LIMIT
  /\ CounterOf(historyPast[1].nodes) >= 2
  /\ Counter > HISTORY_LIMIT

AllUndone == historyPast = <<>> /\ historyFuture # <<>>

\* C2: after NMut sequential immediate mutations from the empty history, the
\* undos stop at the state that held after mutation NMut - HISTORY_LIMIT
\* (the 10th of 60), having recovered HISTORY_LIMIT steps; historyPast is
\* then empty and a further undo changes nothing.
C2_HistoryBound ==
  /\ [](AllUndone =>
          /\ Counter = NMut - HISTORY_LIMIT
          /\ Len(historyFuture) = HISTORY_LIMIT
          /\ CounterOf(Last(historyFuture).nodes) = NMut)
  /\ [][AllUndone => UNCHANGED vars]_vars

\* all NMut mutations were made and the undos have emptied historyPast
C2_Witness ==
  /\ AllUndone
  /\ CounterOf(Last(historyFuture).nodes) = NMut
  /\ Counter > 0

\* C3: a step that leaves a snapshot pending records nothing on historyPast
\* and keeps the pending snapshot, which the first call of a burst set to the
\* state before that call; the expiry of the timer appends exactly that
\* snapshot, once, and ends the burst, so that the next debounced call
\* starts a new one.
C3_BurstRecordsOnce ==
  [][ /\ pendingSnapshot' # <<>> =>
           /\ historyPast' = historyPast
           /\ pendingSnapshot' = IF pendingSnapshot = <<>> THEN <<Current>>
                                 ELSE pendingSnapshot
      /\ (TimerStep /\ pendingSnapshot # <<>>) =>
           /\ historyPast' = SliceLast(Append(historyPast, pendingSnapshot[1]),
                                       HISTORY_LIMIT)
           /\ pendingSnapshot' = <<>>
           /\ timers' = {}
    ]_vars

\* a burst is in flight over a history of two recorded steps: the tree
\* differs from the pending snapshot, which differs from the last recorded one
C3_Witness ==
  /\ pendingSnapshot # <<>>
  /\ pendingSnapshot[1].nodes # nodes
  /\ Len(historyPast) = 2
  /\ Last(historyPast).nodes # pendingSnapshot[1].nodes
  /\ Last(historyPast).nodes.items # <<>>

\* only undo lengthens historyFuture
UndoStep == Len(historyFuture') = Len(historyFuture) + 1

\* C4: an undo made while a snapshot is pending restores the pending
\* snapshot (the state before the burst), puts the state after the burst at
\* the front of historyFuture, and leaves no pending snapshot and no armed
\* timer, so that no timer can commit the burst again.
C4_UndoFlushesPending ==
  [][ (pendingSnapshot # <<>> /\ UndoStep) =>
        /\ Current' = pendingSnapshot[1]
        /\ historyFuture' = <<Current>> \o historyFuture
        /\ Len(historyPast) < HISTORY_LIMIT => historyPast' = historyPast
        /\ pendingSnapshot' = <<>>
        /\ historyTimeout' = 0
        /\ timers' = {}
    ]_vars

\* a burst that changed the tree was undone: the state after it is the redo
\* step, and nothing is pending
C4_Witness ==
  /\ historyFuture # <<>>
  /\ historyFuture[1].nodes # nodes
  /\ nodes.items # <<>>
  /\ historyFuture[1].selectedNodeId = selectedNodeId
  /\ pendingSnapshot = <<>>
  /\ timers = {}
  /\ historyPast # <<>>

ImmediateMutation ==
  \/ \E t \in PageTrees : SetNodes(t)
  \/ \E id \in UpdateIds, u \in UpdateSets : UpdateNodeProps(id, u, "immediate")
  \/ \E id \in UpdateIds : UpdateNodeName(id, "Title")
  \/ \E n \in NewNodes : AddNode(n)
  \/ \E c \in ContainerIds, n \in NewNodes : AddNodeToContainer(c, n)
  \/ \E p \in ParentIds, src \in MoveIds, tgt \in MoveIds :
       MoveNodeWithinParent(p, src, tgt)

\* C5: an immediate-mode mutation leaves historyPast ending with the state
\* (nodes, selectedNodeId, currentPageId) as it was before the mutation, and
\* historyFuture empty.
C5_ImmediatePushesPreState ==
  [][ ImmediateMutation =>
        /\ historyPast' # <<>>
        /\ Last(historyPast') = Current
        /\ historyFuture' = <<>>
    ]_vars

\* an immediate mutation changed a loaded tree
C5_Witness ==
  /\ Len(historyPast) >= 2
  /\ Last(historyPast).nodes # nodes
  /\ Last(historyPast).nodes.items # <<>>
  /\ historyFuture = <<>>
  /\ pendingSnapshot = <<>>

\* C6: with no snapshot pending, undo moves the last snapshot of historyPast
\* into the current state and the current state to the front of
\* historyFuture; redo moves the front of historyFuture into the current
\* state and the current state to the end of historyPast; on an empty source
\* stack either leaves the store as it is.
C6_UndoRedo ==
  [][ pendingSnapshot = <<>> =>
        /\ (Undo /\ historyPast # <<>>) =>
             /\ Current' = Last(historyPast)
             /\ historyPast' = Front(historyPast)
             /\ historyFuture' = <<Current>> \o historyFuture
        /\ (Redo /\ historyFuture # <<>>) =>
             /\ Current' = Head(historyFuture)
             /\ historyFuture' = Tail(historyFuture)
             /\ historyPast' = SliceLast(Append(historyPast, Current), HISTORY_LIMIT)
        /\ (Undo /\ historyPast = <<>>) => UNCHANGED storeVars
        /\ (Redo /\ historyFuture = <<>>) => UNCHANGED storeVars
    ]_vars

\* undos and a redo have happened: both stacks are in use
C6_Witness ==
  /\ pendingSnapshot = <<>>
  /\ Len(historyFuture) >= 1
  /\ Len(historyPast) >= 2
  /\ historyFuture[1].nodes # nodes
  /\ Last(historyPast).nodes # nodes

\* C7: at most one timer is armed; an armed timer is the one historyTimeout
\* names and a snapshot is pending for it, so no cleared or superseded timer
\* is left to commit.
C7_SingleTimer ==
  /\ Cardinality(timers) <= 1
  /\ timers # {} => (timers = {historyTimeout} /\ pendingSnapshot # <<>>)

\* a timer is armed for a burst that changed the tree
C7_Witness ==
  /\ timers = {historyTimeout}
  /\ pendingSnapshot # <<>>
  /\ pendingSnapshot[1].nodes # nodes

\* the ids of the parents that hold a node with this id (Null for the root list)
RECURSIVE ParentsOf(_, _, _)
ParentsOf(arr, id, parent) ==
  UNION { (IF arr.items[i].id = id THEN {parent} ELSE {})
            \cup ParentsOf(arr.items[i].children, id, arr.items[i].id) :
          i \in 1..Len(arr.items) }

AbsentSubjectEdit ==
  \/ /\ MissingId \notin IdsOf(nodes)
     /\ \/ \E u \in UpdateSets, m \in HistoryModes : UpdateNodeProps(MissingId, u, m)
        \/ UpdateNodeName(MissingId, "Title")
        \/ \E n \in NewNodes : AddNodeToContainer(MissingId, n)
  \/ \E p \in ParentIds, src \in MoveIds, tgt \in MoveIds :
       /\ ParentsOf(nodes, src, Null) # {}
       /\ ParentsOf(nodes, tgt, Null) # {}
       /\ ParentsOf(nodes, src, Null) \cap ParentsOf(nodes, tgt, Null) = {}
       /\ MoveNodeWithinParent(p, src, tgt)

\* C8: a tree edit whose subject does not exist (an absent node id, an
\* unknown container id, a move between two different parents) leaves
\* historyPast and historyFuture as they were.
C8_AbsentSubjectKeepsHistory ==
  [][ AbsentSubjectEdit =>
        /\ historyPast' = historyPast
        /\ historyFuture' = historyFuture
    ]_vars

\* C9: updating a node's props with the empty patch returns the input tree
\* itself: the same root list and the same node objects, whether or not the
\* id is in the tree.
C9_EmptyPatchSameTree ==
  (/\ call.fn = "updateNodeTree"
   /\ call.updater.kind = "props"
   /\ DOMAIN call.updater.updates = {}) =>
     call.after = call.before

\* the paths (child indices from the root list) of all nodes of a tree
RECURSIVE PathsIn(_, _)
PathsIn(arr, prefix) ==
  UNION { {Append(prefix, i)} \cup PathsIn(arr.items[i].children, Append(prefix, i)) :
          i \in 1..Len(arr.items) }

RECURSIVE NodeAt(_, _)
NodeAt(arr, path) ==
  IF Len(path) = 1 THEN arr.items[path[1]]
  ELSE NodeAt(arr.items[path[1]].children, Tail(path))

\* C10: when updateNodeTree changes node A, every subtree of the old tree
\* that does not contain A is the same object, unchanged, in the new tree.
C10_StructuralSharing ==
  (/\ call.fn = "updateNodeTree"
   /\ call.nodeId \in IdsOf(call.before)) =>
     \A path \in PathsIn(call.before, <<>>) :
       call.nodeId \notin IdsOf(MkArray(<<NodeAt(call.before, path)>>)) =>
         NodeAt(call.after, path) = NodeAt(call.before, path)

\* the nodes of a tree that have this id
RECURSIVE NodesWithId(_, _)
NodesWithId(arr, id) ==
  UNION { (IF arr.items[i].id = id THEN {arr.items[i]} ELSE {})
            \cup NodesWithId(arr.items[i].children, id) :
          i \in 1..Len(arr.items) }

\* the sibling list a move names: the root list, or the children of the parent
HasSiblingList(arr, parentId) ==
  \/ parentId = Null
  \/ \E n \in NodesWithId(arr, parentId) : n.children.ref # NullRef

SiblingList(arr, parentId) ==
  IF parentId = Null THEN arr
  ELSE (CHOOSE n \in NodesWithId(arr, parentId) : n.children.ref # NullRef).children

ItemIds(items) == [i \in 1..Len(items) |-> items[i].id]

Without(items, id) == SelectSeq(items, LAMBDA n : n.id # id)

\* the call moves a source among the siblings of its target
MovesAmongSiblings ==
  /\ call.fn = "moveNodeInTree"
  /\ HasSiblingList(call.before, call.parentId)
  /\ call.sourceId # call.targetId
  /\ FindIndex(SiblingList(call.before, call.parentId).items, call.sourceId) # 0
  /\ FindIndex(SiblingList(call.before, call.parentId).items, call.targetId) # 0

\* C11: moving a source before a different target of the same sibling list
\* puts the source immediately before the target, keeps the order of the
\* other siblings, and loses or duplicates no node.
C11_MoveBeforeTarget ==
  MovesAmongSiblings =>
    LET old == SiblingList(call.before, call.parentId).items
        new == SiblingList(call.after, call.parentId).items
    IN /\ Len(new) = Len(old)
       /\ Without(new, call.sourceId) = Without(old, call.sourceId)
       /\ FindIndex(new, call.sourceId) # 0
       /\ new[FindIndex(new, call.sourceId)] = old[FindIndex(old, call.sourceId)]
       /\ FindIndex(new, call.targetId) = FindIndex(new, call.sourceId) + 1

\* [a, b, c, d] with source c and target a has become [c, a, b, d]
C11_Witness ==
  /\ MovesAmongSiblings
  /\ call.parentId = Null
  /\ ItemIds(call.before.items) = <<"a", "b", "c", "d">>
  /\ call.sourceId = "c"
  /\ call.targetId = "a"
  /\ ItemIds(call.after.items) = <<"c", "a", "b", "d">>

\* C12: a move returns the tree itself, with the same root list and the same
\* node objects, when the source or the target is not a child of the named
\* parent, when they are the same node, and when the parent does not exist
\* or has no children list.
C12_RejectedMoveSameTree ==
  (call.fn = "moveNodeInTree" /\ ~MovesAmongSiblings) => call.after = call.before

\* the paths of the containers that have this id
ContainerPaths(arr, id) ==
  {p \in PathsIn(arr, <<>>) :
     NodeAt(arr, p).id = id /\ NodeAt(arr, p).type = "container"}

IsPrefix(p, q) == Len(p) <= Len(q) /\ SubSeq(q, 1, Len(p)) = p

\* C13: addNodeToContainer finds the container at any depth, appends the
\* node after the container's existing children, which keep their order,
\* leaves every node that is not on the path from a root to the container
\* unchanged, and selects the new node.
C13_AppendsToContainer ==
  [][\A c \in ContainerIds, n \in NewNodes :
       (AddNodeToContainer(c, n) /\ ContainerPaths(nodes, c) # {}) =>
         /\ selectedNodeId' = n.id
         /\ Len(nodes'.items) = Len(nodes.items)
         /\ \A p \in ContainerPaths(nodes, c) :
              /\ NodeAt(nodes', p).children.items =
                   Append(NodeAt(nodes, p).children.items, n)
              /\ \A q \in PathsIn(nodes, <<>>) :
                   IF IsPrefix(q, p)
                   THEN /\ NodeAt(nodes', q).id = NodeAt(nodes, q).id
                        /\ NodeAt(nodes', q).type = NodeAt(nodes, q).type
                        /\ NodeAt(nodes', q).name = NodeAt(nodes, q).name
                        /\ NodeAt(nodes', q).hasProps = NodeAt(nodes, q).hasProps
                        /\ NodeAt(nodes', q).props = NodeAt(nodes, q).props
                        /\ q # p => Len(NodeAt(nodes', q).children.items) =
                                      Len(NodeAt(nodes, q).children.items)
                   ELSE NodeAt(nodes', q) = NodeAt(nodes, q)]_vars

\* container a, a child of root d next to its sibling b, has received c as
\* its last child and c is selected
C13_Witness ==
  /\ selectedNodeId = "c"
  /\ historyPast # <<>>
  /\ \E p \in ContainerPaths(nodes, "a") :
       /\ Len(p) = 2
       /\ NodeAt(nodes, <<p[1]>>).id = "d"
       /\ ItemIds(NodeAt(nodes, <<p[1]>>).children.items) = <<"b", "a">>
       /\ ItemIds(NodeAt(nodes, p).children.items) = <<"c">>

\* C14: addNodeToContainer with a containerId that names no node, or a
\* node that is not a container, leaves the tree and the selection as they
\* were and inserts the node nowhere.
C14_UnresolvedContainerNoOp ==
  [][\A c \in ContainerIds, n \in NewNodes :
       (AddNodeToContainer(c, n) /\ ContainerPaths(nodes, c) = {}) =>
         /\ nodes' = nodes
         /\ selectedNodeId' = selectedNodeId]_vars

\* C16: no two nodes of the tree, at any depth, share an id.
C16_UniqueIds == UniqueIds(nodes)

\* the node, or a node of its subtree, has an id the tree already holds
DuplicatesAnId(n) == IdsOf(MkArray(<<n>>)) \cap IdsOf(nodes) # {}

\* C17: addNode and addNodeToContainer do not accept a node whose id, or
\* the id of a node below it, is already in the tree: the tree stays as it
\* was.
C17_DuplicateInsertRejected ==
  [][\A n \in NewNodes :
       (/\ DuplicatesAnId(n)
        /\ AddNode(n) \/ \E c \in ContainerIds : AddNodeToContainer(c, n)) =>
         nodes' = nodes]_vars

\* C15: updateNodeProps gives every key of the patch the patch's value, an
\* empty string included, keeps every other key of the node's props, leaves
\* the node's id, type, name and children and every other node as they
\* were, and leaves the content of the tree unchanged when the id is absent.
C15_ShallowMerge ==
  (call.fn = "updateNodeTree" /\ call.updater.kind = "props") =>
    LET patch == call.updater.updates IN
    /\ PathsIn(call.after, <<>>) = PathsIn(call.before, <<>>)
    /\ \A p \in PathsIn(call.before, <<>>) :
         LET old == NodeAt(call.before, p)
             new == NodeAt(call.after, p)
         IN /\ new.id = old.id
            /\ new.type = old.type
            /\ new.name = old.name
            /\ IF old.id = call.nodeId
               THEN /\ new.hasProps
                    /\ DOMAIN new.props = (DOMAIN PropsOrEmpty(old)) \cup (DOMAIN patch)
                    /\ \A k \in DOMAIN patch : new.props[k] = patch[k]
                    /\ \A k \in (DOMAIN PropsOrEmpty(old)) \ (DOMAIN patch) :
                         new.props[k] = old.props[k]
                    /\ new.children = old.children
               ELSE /\ new.hasProps = old.hasProps
                    /\ new.props = old.props
    /\ call.nodeId \notin IdsOf(call.before) =>
         Content(call.after) = Content(call.before)

\* node b with props {x: "0px"}, patched with {y: ""}, has props
\* {x: "0px", y: ""}
C15_Witness ==
  /\ call.fn = "updateNodeTree"
  /\ call.updater = PropsUpdater([y |-> ""])
  /\ call.nodeId = "b"
  /\ \E p \in PathsIn(call.before, <<>>) :
       /\ NodeAt(call.before, p).id = "b"
       /\ NodeAt(call.before, p).props = [x |-> "0px"]
       /\ NodeAt(call.after, p).props = [x |-> "0px", y |-> ""]

\* C18: with preserveExistingValues true, applyTokens yields the preset's
\* tokens in the preset's order, each with the value of the existing token
\* of the same name (the last one, should several share the name) or, when
\* there is none, with the preset's value; existing tokens that the preset
\* does not name are dropped.  With the option false or omitted the result
\* is the preset.
C18_ApplyTokensPreserves ==
  call.fn = "applyTokens" =>
    IF call.options # NoOptions /\ call.options[1].preserveExistingValues
    THEN /\ Len(call.result) = Len(call.nextTokens)
         /\ \A i \in 1..Len(call.nextTokens) :
              LET preset == call.nextTokens[i]
                  same == {j \in 1..Len(call.tokens) : call.tokens[j].name = preset.name}
              IN /\ call.result[i].name = preset.name
                 /\ call.result[i].category = preset.category
                 /\ call.result[i].value =
                      IF same = {} THEN preset.value
                      ELSE call.tokens[CHOOSE j \in same : \A k \in same : k <= j].value
    ELSE call.result = call.nextTokens

\* existing {A: red, B: blue} and preset {A: green, C: yellow} have given
\* {A: red, C: yellow}
C18_Witness ==
  /\ call.fn = "applyTokens"
  /\ call.options = Preserve(TRUE)
  /\ call.tokens = <<MkToken(<<"A">>, "red", "color"), MkToken(<<"B">>, "blue", "color")>>
  /\ call.nextTokens = <<MkToken(<<"A">>, "green", "spacing"),
                         MkToken(<<"C">>, "yellow", "spacing")>>
  /\ call.result = <<MkToken(<<"A">>, "red", "spacing"),
                     MkToken(<<"C">>, "yellow", "spacing")>>

Reverse(seq) == [i \in 1..Len(seq) |-> seq[Len(seq) + 1 - i]]

DistinctNames(tokens) ==
  \A i, j \in 1..Len(tokens) : i # j => tokens[i].name # tokens[j].name

\* C19: for tokens with pairwise different names, buildCssVariables yields
\* one variable per token, each with its token's value, and the same map
\* whatever the order of the tokens.
C19_VariablesInjective ==
  (call.fn = "buildCssVariables" /\ DistinctNames(call.tokens)) =>
    /\ Cardinality(DOMAIN call.result) = Len(call.tokens)
    /\ \A i \in 1..Len(call.tokens) :
         call.result[toCssVariableName(call.tokens[i].name)] = call.tokens[i].value
    /\ buildCssVariables(Reverse(call.tokens)) = call.result

\* what the claim gives a style value: itself when it starts with var(, the
\* variable of the token whose normalized name it normalizes to, or itself
ClaimedValue(value, tokens) ==
  IF StartsWith(value, VarOpen) THEN value
  ELSE IF \E i \in 1..Len(tokens) :
            normalizeTokenName(tokens[i].name) = normalizeTokenName(value)
  THEN LET i == CHOOSE i \in 1..Len(tokens) :
                  normalizeTokenName(tokens[i].name) = normalizeTokenName(value)
       IN VarOpen \o toCssVariableName(tokens[i].name) \o <<")">>
  ELSE value

\* the style properties the handler of a key writes
Targets(key) ==
  IF key = "backgroundColor" THEN {"backgroundColor", "background"}
  ELSE IF key \in StyleKeys THEN {key}
  ELSE {}

\* C20: every recognized key of the node's props puts its value into the
\* style as a var(...) value unchanged, as the reference to the variable of
\* the token the value names, or else as the literal value; keys outside
\* the vocabulary put nothing into the style.
C20_ResolvedValues ==
  call.fn = "resolveNodeStyles" =>
    LET props == call.node.props
        style == call.result.style
        grid == {k \in {"display", "gridTemplateColumns", "gap"} :
                   call.node.type = "container" /\ PropOf(props, "columns") # <<>>}
    IN /\ ~call.result.threw
       /\ \A k \in DOMAIN style :
            k \in grid \/ \E i \in 1..Len(props) : k \in Targets(props[i].key)
       /\ \A i \in 1..Len(props) :
            (/\ Targets(props[i].key) # {}
             /\ \A j \in 1..Len(props) :
                  j # i => Targets(props[j].key) \cap Targets(props[i].key) = {}) =>
              \E k \in Targets(props[i].key) \cap DOMAIN style :
                style[k] = ClaimedValue(props[i].value, call.tokens)

GridKeys == {"display", "gridTemplateColumns", "gap"}

GridDefault(key, columnCount) ==
  IF key = "display" THEN Grid
  ELSE IF key = "gap" THEN OneRem
  ELSE RepeatColumns(columnCount)

\* the node is a container whose columns value parses to a positive integer
HasColumns(node) ==
  /\ node.type = "container"
  /\ PropOf(node.props, "columns") # <<>>
  /\ ParseInt(PropOf(node.props, "columns")[1]) # <<>>
  /\ ParseInt(PropOf(node.props, "columns")[1])[1] > 0

\* C21: a container whose columns value parses to N > 0 resolves, and gets
\* display grid, gridTemplateColumns repeat(N, minmax(0, 1fr)) and gap 1rem
\* for each of the three that its props do not set, and its own resolved
\* value for each that they do; any other node gets none of the three unless
\* it sets it.
C21_GridDefaults ==
  call.fn = "resolveNodeStyles" =>
    LET node == call.node
        style == call.result.style
    IN /\ HasColumns(node) => ~call.result.threw
       /\ ~call.result.threw =>
            \A k \in GridKeys :
              IF PropOf(node.props, k) # <<>>
              THEN /\ k \in DOMAIN style
                   /\ style[k] = resolveTokenValue(PropOf(node.props, k)[1],
                                                   buildTokenVarMap(call.tokens))
              ELSE IF HasColumns(node)
              THEN /\ k \in DOMAIN style
                   /\ style[k] = GridDefault(k, ParseInt(PropOf(node.props, "columns")[1])[1])
              ELSE k \notin DOMAIN style

\* the value is # followed by exactly count hexadecimal digits
IsHex(value, count) ==
  /\ Len(value) = count + 1
  /\ value[1] = "#"
  /\ \A i \in 2..Len(value) : IsHexDigit(value[i])

\* the value is rgb(...) or rgba(...) with three arguments
IsRgbWithoutAlpha(value) ==
  /\ RgbOpenAt(value, 1) # 0
  /\ value[Len(value)] = ")"
  /\ Len(TrimmedParts(Split(SubSeq(value, RgbOpenAt(value, 1) + 1, Len(value) - 1)))) = 3

\* C22: #abc parses to #aabbcc with alpha 100, a 6-digit hex to itself with
\* alpha 100, an 8-digit hex to its first six digits with the alpha that
\* is the last two digits as a whole percentage of 255, and rgb()/rgba()
\* without an alpha argument to a color with alpha 100.
C22_SolidColorsParsed ==
  call.fn = "parseCssColor" =>
    LET v == call.value IN
    /\ IsHex(v, 3) =>
         call.result = <<MkColor(<<"#", v[2], v[2], v[3], v[3], v[4], v[4]>>, <<100>>)>>
    /\ IsHex(v, 6) => call.result = <<MkColor(v, <<100>>)>>
    /\ IsHex(v, 8) =>
         /\ call.result # <<>>
         /\ call.result[1].hex = SubSeq(v, 1, 7)
         /\ call.result[1].alpha # NaN
         /\ call.result[1].alpha[1] \in 0..100
         /\ LET last == 16 * HexValue(v[8]) + HexValue(v[9])
                diff == 255 * call.result[1].alpha[1] - 100 * last
            IN 2 * diff <= 255 /\ 2 * diff >= 0 - 255
    /\ IsRgbWithoutAlpha(v) => call.result # <<>> /\ call.result[1].alpha = <<100>>

FortyFiveDeg == <<"4", "5", "d", "e", "g", ",", " ">>

HalfBlack == <<"r", "g", "b", "a", "(", "0", ",", "0", ",", "0", ",", "0", ".", "5", ")">>

\* the angle a first argument states, <<>> if it states none
StatedAngle(first) ==
  IF first = FortyFiveDeg THEN <<Frac(45, 1)>>
  ELSE IF first = <<"-", "3", "0", "D", "E", "G", ",">> THEN <<Frac(0 - 30, 1)>>
  ELSE IF first = <<"1", "2", ".", "5", "d", "e", "g", ",", " ">> THEN <<Frac(125, 10)>>
  ELSE <<>>

\* C23: a linear-gradient(...) of an angle and two stops parses to that
\* angle and the two stops, whole, also when a stop is rgb(...) or
\* rgba(...) with commas of its own; without an angle argument it parses to
\* angle 90 and its first two arguments as start and end.
C23_GradientArgsSplitAtDepthZero ==
  call.fn = "parseGradient" =>
    \A a \in Angles, s \in Stops, t \in Stops :
      call.value = LinearGradientOpen \o a \o s \o CommaSpace \o t \o <<")">> =>
        call.result =
          IF StatedAngle(a) # <<>>
          THEN <<[angle |-> StatedAngle(a), startColor |-> s, endColor |-> t]>>
          ELSE IF a = <<>>
          THEN <<[angle |-> <<Frac(90, 1)>>, startColor |-> s, endColor |-> t]>>
          ELSE <<[angle |-> <<Frac(90, 1)>>,
                  startColor |-> <<"t", "o", " ", "r", "i", "g", "h", "t">>,
                  endColor |-> s]>>

\* C24: historyFuture never holds more than HISTORY_LIMIT snapshots.
C24_HistoryFutureBounded == Len(historyFuture) <= HISTORY_LIMIT

\* a full historyPast was undone to the end: historyFuture is full
C24_Witness ==
  /\ Len(historyFuture) = HISTORY_LIMIT
  /\ Counter = NMut - HISTORY_LIMIT
  /\ CounterOf(Last(historyFuture).nodes) = NMut

\* C25: with no snapshot pending, undo followed by redo restores the whole
\* state when historyPast is not empty, and so does redo followed by undo
\* when historyFuture is not empty; historyPast is then below the limit, so
\* that the redo evicts nothing.
C25_UndoRedoInverse ==
  pendingSnapshot = <<>> =>
    /\ historyPast # <<>> => redo(undo(State)) = State
    /\ historyFuture # <<>> =>
         /\ Len(historyPast) < HISTORY_LIMIT
         /\ undo(redo(State)) = State

\* one undo below a full historyPast, after a change of the selection:
\* the redo fills historyPast to the limit
C25_Witness ==
  /\ pendingSnapshot = <<>>
  /\ Len(historyPast) = HISTORY_LIMIT - 1
  /\ Len(historyFuture) = 1
  /\ historyFuture[1].selectedNodeId # selectedNodeId

\* an operation that pushes a snapshot of its own
ImmediateOperation ==
  \/ ImmediateMutation
  \/ \E id \in SelectIds : id # selectedNodeId /\ SetSelectedNodeId(id)
  \/ \E id \in PageIds : id # currentPageId /\ SetCurrentPageId(id)

\* C26: an immediate-mode operation issued while a debounced snapshot is
\* pending leaves historyPast ending with the state before the burst followed
\* by the state after the burst, no snapshot pending and no timer armed; one
\* undo then restores the state after the burst and a second one the state
\* before it.
C26_ImmediateCommitsPending ==
  [][ (pendingSnapshot # <<>> /\ ImmediateOperation) =>
        /\ Len(historyPast') >= 2
        /\ historyPast'[Len(historyPast') - 1] = pendingSnapshot[1]
        /\ Last(historyPast') = Current
        /\ pendingSnapshot' = <<>>
        /\ historyTimeout' = 0
        /\ timers' = {}
        /\ snapshotState(undo(State')) = Current
        /\ snapshotState(undo(undo(State'))) = pendingSnapshot[1]
        /\ Len(undo(undo(State')).historyFuture) = 2
    ]_vars

\* a burst and an operation after it changed the tree one after the other,
\* and both are recorded
C26_Witness ==
  /\ Len(historyPast) >= 2
  /\ historyPast[Len(historyPast) - 1].nodes # Last(historyPast).nodes
  /\ historyPast[Len(historyPast) - 1].nodes.items # <<>>
  /\ nodes # Last(historyPast).nodes
  /\ Last(historyPast).selectedNodeId # selectedNodeId
  /\ pendingSnapshot = <<>>
  /\ historyTimeout = 0
  /\ timers = {}
  /\ historyFuture = <<>>

(***************************************************************************)
(* The general specification with a host that selects only what is there:  *)
(* setSelectedNodeId is called with null or with the id of a node of the   *)
(* current tree.                                                           *)
(***************************************************************************)
Selectable == (SelectIds \cap IdsOf(nodes)) \cup {Null}

SelNext ==
  \/ CanRecord /\ \E id \in Selectable : SetSelectedNodeId(id)
  \/ CanRecord /\ \E id \in PageIds : SetCurrentPageId(id)
  \/ CanRecord /\ \E t \in PageTrees : SetNodes(t)
  \/ CanRecord /\ \E id \in UpdateIds, u \in UpdateSets, m \in HistoryModes :
                     UpdateNodeProps(id, u, m)
  \/ CanRecord /\ \E id \in UpdateIds : UpdateNodeName(id, "Title")
  \/ CanRecord /\ \E n \in NewNodes : AddNode(n)
  \/ CanRecord /\ \E c \in ContainerIds, n \in NewNodes : AddNodeToContainer(c, n)
  \/ CanRecord /\ \E p \in ParentIds, src \in MoveIds, tgt \in MoveIds :
                     MoveNodeWithinParent(p, src, tgt)
  \/ Undo
  \/ Redo
  \/ \E h \in timers : TimerFires(h)

SpecSel == Init /\ [][SelNext]_vars

\* C27: when setSelectedNodeId is only called with null or the id of a node
\* of the tree, selectedNodeId is always null or the id of a node of the
\* current tree.
C27_SelectionInTree == selectedNodeId = Null \/ selectedNodeId \in IdsOf(nodes)

(***************************************************************************)
(* The page switch on the store alone.  A host shows a page by calling     *)
(* setCurrentPageId with its id and then setNodes with its node list; here *)
(* the caller is any sequence of setCurrentPageId, setNodes, undo and redo *)
(* with arguments from the sets below, so every order in which a host can  *)
(* make these calls is among the runs.                                     *)
(***************************************************************************)
MaxSwitchOps == 4

\* the pageId argument of setCurrentPageId
SwitchPageIds == {"p1", "p2", Null}

\* the nodes argument of setNodes
SwitchLists ==
  { MkArray(<<>>),
    MkArray(<<Box("a", <<Text("b")>>), Text("c")>>),
    MkArray(<<Text("d"), Text("b")>>) }

SwitchNext ==
  \/ Recorded < MaxSwitchOps /\ \E p \in SwitchPageIds : SetCurrentPageId(p)
  \/ Recorded < MaxSwitchOps /\ \E t \in SwitchLists : SetNodes(t)
  \/ Undo
  \/ Redo

SpecSwitch == Init /\ [][SwitchNext]_vars

\* the snapshot names page B and holds the node list the store showed
\* under page A
Mispaired(snap, listOfA, B) ==
  /\ snap.currentPageId = B
  /\ snap.nodes = listOfA

\* The step completes a switch from page A to page B: the last recorded
\* state is page A with the list the store still holds, which has nodes, the
\* store is on page B (setCurrentPageId(B) recorded that state and left
\* nodes alone), and the step is setNodes with another list, the one of
\* page B
SwitchCompletes(A, B) ==
  /\ A # B
  /\ nodes.items # <<>>
  /\ historyPast # <<>>
  /\ Last(historyPast).currentPageId = A
  /\ Last(historyPast).nodes = nodes
  /\ currentPageId = B
  /\ Content(nodes') # Content(nodes)
  /\ currentPageId' = B
  /\ Len(historyPast') = Len(historyPast) + 1

\* C28: when the host switches pages with setCurrentPageId(B) and then
\* setNodes(nodes of page B), no snapshot the switch records in historyPast
\* and no state that undo restores after it has currentPageId B with the node
\* list of page A.
C28_SnapshotsPairNodesWithPage ==
  [][ \A A \in {"p1", "p2"}, B \in {"p1", "p2"} :
        SwitchCompletes(A, B) =>
          /\ ~Mispaired(Last(historyPast'), nodes, B)
          /\ ~Mispaired(snapshotState(undo(State')), nodes, B)
    ]_vars

\* C29: a snapshot is pending exactly when the debounce timer is armed;
\* while one is pending historyFuture is empty, so the timer commits with an
\* empty redo stack; historyPast and historyFuture together never hold more
\* than HISTORY_LIMIT snapshots.
C29_PendingTimerFuture ==
  /\ pendingSnapshot # <<>> <=> timers # {}
  /\ timers # {} <=> historyTimeout # 0
  /\ pendingSnapshot # <<>> => historyFuture = <<>>
  /\ Len(historyPast) + Len(historyFuture) <= HISTORY_LIMIT

\* a drag is under way on a full history
C29_Witness ==
  /\ pendingSnapshot # <<>>
  /\ historyTimeout \in timers
  /\ Len(historyPast) = HISTORY_LIMIT
  /\ pendingSnapshot[1].nodes # nodes

(***************************************************************************)
(* The history scenario with a timer that keeps its promise: setTimeout    *)
(* runs the callback of a timer that stays armed.                          *)
(***************************************************************************)
SpecLive == Init /\ [][HistNext]_vars /\ WF_vars(TimerStep)

\* the snapshots of the history in order: past, the live state, future
Timeline == historyPast \o <<Current>> \o historyFuture

Count(snap, seq) == Cardinality({i \in 1..Len(seq) : seq[i] = snap})

\* C30: under weak fairness of the debounce timer a pending snapshot is
\* eventually recorded: a state with no pending snapshot is reached, the
\* snapshot taken before the burst is kept until then, and the step that
\* ends the burst puts it into the history exactly once.
C30_BurstEventuallyRecorded ==
  /\ [][ pendingSnapshot # <<>> =>
           /\ pendingSnapshot' # <<>> => pendingSnapshot' = pendingSnapshot
           /\ pendingSnapshot' = <<>> => Count(pendingSnapshot[1], Timeline') = 1
       ]_vars
  /\ (pendingSnapshot # <<>>) ~> (pendingSnapshot = <<>>)

\* the timer has recorded a drag on a full history: the state before the
\* drag is the last snapshot of historyPast
C30_Witness ==
  /\ pendingSnapshot = <<>>
  /\ timers = {}
  /\ historyFuture = <<>>
  /\ Len(historyPast) = HISTORY_LIMIT
  /\ Counter = NMut
  /\ CounterOf(Last(historyPast).nodes) = NMut - MaxBurst

====
